---- MODULE Spec2Model ----
(***************************************************************************)
(* Agentic Radar: the report builder, the scan / test orchestrator and the *)
(* evidence packager of src/agentic_radar, as three state machines.        *)
(*                                                                         *)
(*   SpecBuild  ReportBuilder.build applied to bounded lists of findings   *)
(*   SpecRun    run_scan / run_test, step by step, with the files they     *)
(*              write                                                      *)
(*   SpecPack   EvidencePackBuilder.build, step by step, run twice on the  *)
(*              same arguments                                             *)
(*                                                                         *)
(* Text the code inspects character by character (severities, path         *)
(* components) is a sequence of one-character strings; text the code only  *)
(* formats and compares for equality (names, identifiers) is a string.     *)
(***************************************************************************)
EXTENDS Naturals, Sequences, FiniteSets, TLC

VARIABLES
    \* ---- SpecBuild: one ReportBuilder.build call
    bpc,            \* "input" | "built"
    bProject,       \* the ParsedProject argument
    bFindings,      \* the findings argument
    bReport,        \* the RadarReport returned (NoReport before the call)
    \* ---- SpecRun: one run_scan / run_test call
    pc,             \* position in run_scan / run_test
    config,         \* ScanConfig / TestConfig
    disk,           \* the project root on disk: what parse() will find
    project,        \* ParsedProject (NoProject before parse)
    detIdx,         \* run_detectors: index of the next detector
    findings,       \* run_detectors: findings accumulated so far
    scenario_out,   \* TestRunner.run output: [findings, results]
    report,         \* the RadarReport built (NoReport before)
    outFile,        \* the file at config.output_path
    store,          \* the object store directory: name -> file content
    raised,         \* the exception that left the call, or None
    result,         \* ScanResult / TestResult returned, or NoResult
    runNo,          \* 1 or 2: which of two run_scan calls is running
    firstReport,    \* the report the first run_scan call returned
    \* ---- SpecPack: EvidencePackBuilder.build, called twice
    ppc,            \* position in build
    pargs,          \* the arguments of build
    fs,             \* the file system: path -> file content
    dirs,           \* the directories of the file system
    output_path,    \* build's local output_path once computed
    findIdx,        \* index of the next findings path to archive
    zipEntries,     \* entries of the open archive, in write order
    metadata,       \* build's metadata dict
    praised,        \* the exception that left build, or None
    presult,        \* EvidencePackResult returned, or NoResult
    pstore,         \* the builder's object store: name -> file content
    buildNo,        \* 1 or 2: which of the two builds is running
    firstZip,       \* the archive left on disk by the first build
    \* ---- one call of a function of the library
    fpc,            \* "idle" | "call" | "returned"
    fin,            \* the arguments of the call
    fout,           \* what the call returned or raised
    \* ---- SpecStore: callers of one LocalObjectStore, and a reader
    sfiles,         \* the store directory: name -> file content
    sproc,          \* each caller's position in put_file / put_json
    shist,          \* the puts that returned, in order of return
    sread,          \* what the reader saw last
    suuid           \* how many uuid names have been drawn

buildVars == <<bpc, bProject, bFindings, bReport>>
runVars   == <<pc, config, disk, project, detIdx, findings, scenario_out,
               report, outFile, store, raised, result, runNo, firstReport>>
packVars  == <<ppc, pargs, fs, dirs, output_path, findIdx, zipEntries,
               metadata, praised, presult, pstore, buildNo, firstZip>>
fnVars    == <<fpc, fin, fout>>
osVars    == <<sfiles, sproc, shist, sread, suuid>>
vars      == <<buildVars, runVars, packVars, fnVars, osVars>>

----------------------------------------------------------------------------
(* Bounds of the model *)

MaxFindings  == 3   \* findings handed to ReportBuilder.build
MaxDetectors == 2   \* length of a caller-supplied detector list
MaxScenarios == 2   \* length of a requested scenario list
MaxPaths     == 2   \* findings paths handed to EvidencePackBuilder.build
MaxFiles     == 2   \* *.py files under a project root handed to the parser alone
MaxMerged    == 3   \* findings handed to VulnerabilityMapper.merge, all groups together
MaxPuts      == 2   \* put_file / put_json calls on one store, all callers together
RecursionLimit == 4 \* depth of calls the interpreter allows (sys.getrecursionlimit)
MaxItems     == 2   \* tools, servers or vulnerability entries of a project

----------------------------------------------------------------------------
(* Values *)

\* Python's None where the field is a string / where it is character text
None      == "<<None>>"
NoneChars == <<"<<None>>">>

NoProject == [none |-> TRUE]
NoReport  == [none |-> TRUE]
NoResult  == [none |-> TRUE]
NoCall    == [none |-> TRUE]
Absent    == [absent |-> TRUE]

BoundedSeq(S, n) == UNION {[1..k -> S] : k \in 0..n}

Range(s) == {s[i] : i \in DOMAIN s}

\* all orders in which a set can be enumerated
Orders(S) == {o \in [1..Cardinality(S) -> S] : Range(o) = S}

RECURSIVE SumOver(_, _)
SumOver(f, S) ==
    IF S = {} THEN 0
    ELSE LET k == CHOOSE k \in S : TRUE IN f[k] + SumOver(f, S \ {k})

RECURSIVE Flatten(_)
Flatten(ss) == IF ss = <<>> THEN <<>> ELSE Head(ss) \o Flatten(Tail(ss))

----------------------------------------------------------------------------
(* Character text: str.strip, str.lower, str.startswith *)

UpperToLower ==
    [c \in {"A","B","C","D","E","F","G","H","I","J","K","L","M",
            "N","O","P","Q","R","S","T","U","V","W","X","Y","Z"} |->
        CASE c = "A" -> "a" [] c = "B" -> "b" [] c = "C" -> "c" [] c = "D" -> "d"
          [] c = "E" -> "e" [] c = "F" -> "f" [] c = "G" -> "g" [] c = "H" -> "h"
          [] c = "I" -> "i" [] c = "J" -> "j" [] c = "K" -> "k" [] c = "L" -> "l"
          [] c = "M" -> "m" [] c = "N" -> "n" [] c = "O" -> "o" [] c = "P" -> "p"
          [] c = "Q" -> "q" [] c = "R" -> "r" [] c = "S" -> "s" [] c = "T" -> "t"
          [] c = "U" -> "u" [] c = "V" -> "v" [] c = "W" -> "w" [] c = "X" -> "x"
          [] c = "Y" -> "y" [] c = "Z" -> "z"]

Lower(s) ==
    [i \in DOMAIN s |-> IF s[i] \in DOMAIN UpperToLower THEN UpperToLower[s[i]] ELSE s[i]]

Whitespace == {" ", "\t", "\n", "\r"}

Strip(s) ==
    LET keep == {i \in DOMAIN s : s[i] \notin Whitespace} IN
    IF keep = {} THEN <<>>
    ELSE LET lo == CHOOSE i \in keep : \A j \in keep : i <= j
             hi == CHOOSE i \in keep : \A j \in keep : j <= i
         IN  SubSeq(s, lo, hi)

StartsWith(s, prefix) ==
    /\ Len(s) >= Len(prefix)
    /\ SubSeq(s, 1, Len(prefix)) = prefix

\* the severity words
SevCritical == <<"c","r","i","t","i","c","a","l">>
SevHigh     == <<"h","i","g","h">>
SevMedium   == <<"m","e","d","i","u","m">>
SevModerate == <<"m","o","d","e","r","a","t","e">>
SevLow      == <<"l","o","w">>
SevInfo     == <<"i","n","f","o">>
SevUnknown  == <<"u","n","k","n","o","w","n">>
KeyTotal    == <<"t","o","t","a","l">>

CanonicalSeverities == {SevCritical, SevHigh, SevMedium, SevLow, SevInfo, SevUnknown}

----------------------------------------------------------------------------
(* models.py *)

\* normalize_severity ignoring the value: what a builder that trusted its
\* input would do
RawSeverity(value) == value

normalize_severity(value) ==
    LET given      == IF value = NoneChars \/ value = <<>> THEN SevUnknown ELSE value
        normalized == Lower(Strip(given))
    IN  IF normalized \in {SevCritical, SevHigh, SevMedium, SevLow, SevInfo}
        THEN normalized
        ELSE SevUnknown

\* RadarReport.severity_totals: the loop body for one finding
TotalsAdd(totals, finding) ==
    LET severity == normalize_severity(finding.severity)
        present  == IF severity \in DOMAIN totals
                    THEN totals
                    ELSE [k \in DOMAIN totals \cup {severity} |->
                            IF k \in DOMAIN totals THEN totals[k] ELSE 0]
    IN  [present EXCEPT ![severity] = @ + 1]

RECURSIVE TotalsLoop(_, _)
TotalsLoop(totals, fs_) ==
    IF fs_ = <<>> THEN totals
    ELSE TotalsLoop(TotalsAdd(totals, Head(fs_)), Tail(fs_))

severity_totals(fs_) ==
    LET totals == TotalsLoop([k \in CanonicalSeverities |-> 0], fs_)
        total  == SumOver(totals, DOMAIN totals \ {KeyTotal})
    IN  [k \in DOMAIN totals \cup {KeyTotal} |-> IF k = KeyTotal THEN total ELSE totals[k]]

----------------------------------------------------------------------------
(* reporting.py *)

\* ReportBuilder.build (generated_at, the clock reading, is left out)
\* a builder whose snapshot is the project with its tools taken out
ReportBuilder_buildStripping(proj, fs_, mode, trace_ids, scenario_results, md, include_snapshot) ==
    [ project_name     |-> proj.project_name,
      mode             |-> mode,
      findings         |-> fs_,
      parsed_project   |-> IF include_snapshot THEN [proj EXCEPT !.tools = <<>>] ELSE NoProject,
      summary          |-> [ findings  |-> severity_totals(fs_),
                             inventory |-> [ agents       |-> Len(proj.agents),
                                             tools        |-> Len(proj.tools),
                                             mcp_servers  |-> Len(proj.mcp_servers),
                                             dependencies |-> Len(proj.dependencies) ],
                             mode      |-> mode ],
      trace_ids        |-> trace_ids,
      scenario_results |-> scenario_results,
      metadata         |-> md ]

ReportBuilder_build(proj, fs_, mode, trace_ids, scenario_results, md, include_snapshot) ==
    [ project_name     |-> proj.project_name,
      mode             |-> mode,
      findings         |-> fs_,
      parsed_project   |-> IF include_snapshot THEN proj ELSE NoProject,
      summary          |-> [ findings  |-> severity_totals(fs_),
                             inventory |-> [ agents       |-> Len(proj.agents),
                                             tools        |-> Len(proj.tools),
                                             mcp_servers  |-> Len(proj.mcp_servers),
                                             dependencies |-> Len(proj.dependencies) ],
                             mode      |-> mode ],
      trace_ids        |-> trace_ids,
      scenario_results |-> scenario_results,
      metadata         |-> md ]

----------------------------------------------------------------------------
(* Dictionaries: dict.get(key, default) and dict.setdefault(key, value) *)

Get(d, k, default) == IF k \in DOMAIN d THEN d[k] ELSE default

Put(d, k, v) == [x \in DOMAIN d \cup {k} |-> IF x = k THEN v ELSE d[x]]

\* d[k] = v whatever d holds
Overwrite(d, k, v) == Put(d, k, v)

SetDefault(d, k, v) == IF k \in DOMAIN d THEN d ELSE Put(d, k, v)

EmptyDict == [x \in {} |-> None]

\* Python truthiness of an optional string: None and "" are falsy
Truthy(v) == v # None /\ v # ""

----------------------------------------------------------------------------
(* detectors.py *)

RadarFinding(identifier, title, severity, description, llm, agentic, subject, remediation, detector, md) ==
    [ identifier    |-> identifier,
      title         |-> title,
      severity      |-> severity,
      description   |-> description,
      owasp_llm     |-> llm,
      owasp_agentic |-> agentic,
      subject       |-> subject,
      remediation   |-> remediation,
      detector      |-> detector,
      metadata      |-> md ]

\* what Detector.run hands back: its findings, or the exception it raised
Returned(fs_) == [exc |-> None, findings |-> fs_]
Raised(exc)   == [exc |-> exc, findings |-> <<>>]

\* "not tool.version" taken as "tool.version is None"
NoVersionNullOnly(version) == version = None

\* ToolInventoryDetector.run: not tool.version
NoVersion(version) == ~Truthy(version)

\* ToolInventoryDetector.run: the findings of one tool
ToolFindings(tool) ==
    (IF NoVersion(tool.version)
     THEN << RadarFinding(
                "TOOL-NOVERSION::" \o tool.name,
                "Tool '" \o tool.name \o "' is missing a pinned version",
                SevMedium,
                "Tools should be version pinned to ensure deterministic security reviews and facilitate patch management.",
                <<"LLM02">>, <<"Agentic-Tooling">>,
                tool.name,
                "Add an explicit version for the tool in the agent manifest.",
                "tool-inventory",
                [source |-> tool.source]) >>
     ELSE <<>>)
    \o
    (IF tool.source # NoneChars /\ tool.source # <<>> /\ StartsWith(tool.source, <<"h","t","t","p">>)
     THEN << RadarFinding(
                "TOOL-EXTERNAL::" \o tool.name,
                "Tool '" \o tool.name \o "' is sourced from an external endpoint",
                SevLow,
                "External tool sources should be evaluated for supply-chain exposure and guarded with allow-lists or sandboxes.",
                <<"LLM06">>, <<"Agentic-External-Tool">>,
                tool.name,
                "Review the external tool source and enforce provenance controls.",
                "tool-inventory",
                [source |-> tool.source]) >>
     ELSE <<>>)

ToolInventoryDetector_run(proj) ==
    Returned(Flatten([i \in DOMAIN proj.tools |-> ToolFindings(proj.tools[i])]))

\* the membership test of MCPDetector.run made blind to letter case
NoAuthAnyCase(auth_mode) ==
    auth_mode \in {None, "anonymous", "none", "Anonymous", "None", "ANONYMOUS", "NONE"}

\* MCPDetector.run: server.auth_mode in (None, "anonymous", "none")
NoAuth(auth_mode) == auth_mode \in {None, "anonymous", "none"}

\* MCPDetector.run: the findings of one server
ServerFindings(server) ==
    (IF server.capabilities = <<>>
     THEN << RadarFinding(
                "MCP-NOCAP::" \o server.name,
                "MCP server '" \o server.name \o "' does not declare capabilities",
                SevMedium,
                "Declare explicit MCP capabilities to apply least privilege controls and map permissions to security policies.",
                <<"LLM08">>, <<"Agentic-MCP-LeastPrivilege">>,
                server.name,
                "Document the MCP server capabilities and enforce policy checks.",
                "mcp-server",
                [endpoint |-> server.endpoint]) >>
     ELSE <<>>)
    \o
    (IF NoAuth(server.auth_mode)
     THEN << RadarFinding(
                "MCP-NOAUTH::" \o server.name,
                "MCP server '" \o server.name \o "' has no authentication configured",
                SevHigh,
                "Unprotected MCP servers expose powerful automation capabilities. Use mutual authentication and scoped tokens.",
                <<"LLM04">>, <<"Agentic-MCP-Hardening">>,
                server.name,
                "Require authentication and audit access for the MCP server.",
                "mcp-server",
                [endpoint |-> server.endpoint, auth_mode |-> server.auth_mode]) >>
     ELSE <<>>)

MCPDetector_run(proj) ==
    Returned(Flatten([i \in DOMAIN proj.mcp_servers |-> ServerFindings(proj.mcp_servers[i])]))

\* VulnerabilityDetector.severity_map
severity_map ==
    [k \in {SevCritical, SevHigh, SevMedium, SevModerate, SevLow} |->
        IF k = SevModerate THEN SevMedium ELSE k]

\* VulnerabilityDetector.run: the finding of one vulnerability entry
VulnFinding(dependency, vulnerability) ==
    LET severity   == Lower(Get(vulnerability, "severity", SevUnknown))
        normalized == Get(severity_map, severity, SevUnknown)
        id         == Get(vulnerability, "id", None)
        cve        == Get(vulnerability, "cve", None)
        identifier == IF Truthy(id) THEN id
                      ELSE IF Truthy(cve) THEN cve
                      ELSE "VULN::" \o dependency.name
    IN  RadarFinding(
            "DEP-VULN::" \o dependency.name \o "::" \o identifier,
            "Dependency '" \o dependency.name \o "' has a known vulnerability",
            normalized,
            Get(vulnerability, "description",
                "Dependency vulnerability reported by upstream advisory feeds."),
            <<"LLM06">>, <<"Agentic-SupplyChain">>,
            dependency.name,
            Get(vulnerability, "fix_version", None),
            "dependency-vulnerability",
            [id |-> identifier, severity |-> severity,
             fix_version |-> Get(vulnerability, "fix_version", None)])

\* a null severity has no lower(): the entry makes run() raise
VulnRaises(vulnerability) == Get(vulnerability, "severity", SevUnknown) = NoneChars

VulnerabilityDetector_run(proj) ==
    LET entries == Flatten([i \in DOMAIN proj.dependencies |->
                      [j \in DOMAIN proj.dependencies[i].vulnerabilities |->
                          [dep |-> proj.dependencies[i],
                           vuln |-> proj.dependencies[i].vulnerabilities[j]]]])
    IN  IF \E i \in DOMAIN entries : VulnRaises(entries[i].vuln)
        THEN Raised("AttributeError")
        ELSE Returned([i \in DOMAIN entries |-> VulnFinding(entries[i].dep, entries[i].vuln)])

\* Detector.run of a detector object: the three of this module, and two the
\* caller may supply: one whose run() raises, one that emits what it was
\* constructed with
Detector_run(detector, proj) ==
    CASE detector.kind = "tool-inventory"           -> ToolInventoryDetector_run(proj)
      [] detector.kind = "mcp-server"               -> MCPDetector_run(proj)
      [] detector.kind = "dependency-vulnerability" -> VulnerabilityDetector_run(proj)
      [] detector.kind = "raising"                  -> Raised("RuntimeError")
      [] detector.kind = "custom"                   -> Returned(detector.emits)

\* the detector's findings put in front of those collected so far
ExtendInFront(acc, out) == out.findings \o acc

\* run_detectors: findings.extend(detector.run(project))
Extend(acc, out) == acc \o out.findings

\* getattr(detector, "name", "detector")
DetectorName(detector) == Get(detector, "name", "detector")

----------------------------------------------------------------------------
(* parser.py *)

NoManifest == [kind |-> "none"]
Malformed  == [kind |-> "malformed"]       \* a manifest file that is not JSON
Loaded(d)  == [kind |-> "json", data |-> d] \* a manifest file holding the object d
NonObject  == [kind |-> "nonobject"]       \* a manifest file holding JSON that is no object
Unreadable == [kind |-> "unreadable"]      \* a manifest path that open() refuses

\* str.replace("_", "-") on character text
ReplaceUnderscores(s) == [i \in DOMAIN s |-> IF s[i] = "_" THEN "-" ELSE s[i]]

\* a file *.py under the root: the directory it lies in and its stem
PyFile(dir, stem) == [dir |-> dir, stem |-> stem]

\* ProjectParser._derive_manifest: the loop over root.rglob("*.py"), walk
\* being the files in the order the directory walk yields them
RECURSIVE DeriveAgents(_, _)
DeriveAgents(walk, seen_agents) ==
    IF walk = <<>> THEN <<>>
    ELSE LET file       == Head(walk)
             agent_name == ReplaceUnderscores(file.stem) IN
         IF StartsWith(file.stem, <<"t","e","s","t","_">>) \/ agent_name \in seen_agents
         THEN DeriveAgents(Tail(walk), seen_agents)
         ELSE <<[name |-> agent_name, tools |-> <<>>]>>
              \o DeriveAgents(Tail(walk), seen_agents \cup {agent_name})

_derive_manifest(root, walk) ==
    [ project      |-> root.name,
      agents       |-> DeriveAgents(walk, {}),
      tools        |-> <<>>,
      mcp_servers  |-> <<>>,
      dependencies |-> <<>>,
      metadata     |-> [derived_from_source |-> TRUE] ]

\* the typed records ProjectParser.parse builds from manifest items
AgentOf(item) ==
    [ name        |-> Get(item, "name", "unknown"),
      description |-> Get(item, "description", None),
      tools       |-> Get(item, "tools", <<>>) ]

ToolOf(item) ==
    [ name    |-> Get(item, "name", "unknown"),
      version |-> Get(item, "version", None),
      source  |-> Get(item, "source", NoneChars),
      scope   |-> Get(item, "scope", None) ]

ServerOf(item) ==
    [ name         |-> Get(item, "name", "unknown"),
      endpoint     |-> Get(item, "endpoint", ""),
      capabilities |-> Get(item, "capabilities", <<>>),
      auth_mode    |-> Get(item, "auth_mode", None) ]

DependencyOf(item) ==
    [ name            |-> Get(item, "name", "unknown"),
      version         |-> Get(item, "version", None),
      license         |-> Get(item, "license", None),
      vulnerabilities |-> Get(item, "vulnerabilities", <<>>) ]

MapSeq(Op(_), s) == [i \in DOMAIN s |-> Op(s[i])]

\* ProjectParser.parse, from the manifest data on
ParsedFrom(root, data, discovered) ==
    LET named == IF Truthy(Get(data, "project", None)) THEN data["project"]
                 ELSE IF Truthy(Get(data, "project_name", None)) THEN data["project_name"]
                 ELSE root.name
        md0   == Get(data, "metadata", EmptyDict)
        md    == IF discovered
                 THEN SetDefault(SetDefault(md0, "manifest_path", root.name \o "/agentic_radar.json"),
                                 "manifest_discovered", TRUE)
                 ELSE SetDefault(md0, "manifest_generated", TRUE)
    IN  [ root         |-> root.name,
          project_name |-> named,
          agents       |-> MapSeq(AgentOf, Get(data, "agents", <<>>)),
          tools        |-> MapSeq(ToolOf, Get(data, "tools", <<>>)),
          mcp_servers  |-> MapSeq(ServerOf, Get(data, "mcp_servers", <<>>)),
          dependencies |-> MapSeq(DependencyOf, Get(data, "dependencies", <<>>)),
          metadata     |-> md ]

\* ProjectParser._load_manifest: the data, or the exception raised; only
\* json.JSONDecodeError is turned into ParserError
_load_manifest(manifest) ==
    CASE manifest.kind = "unreadable" -> [exc |-> "OSError", data |-> None]
      [] manifest.kind = "malformed"  -> [exc |-> "ParserError", data |-> None]
      [] manifest.kind = "nonobject"  -> [exc |-> None, data |-> <<>>]
      [] manifest.kind = "json"       -> [exc |-> None, data |-> manifest.data]

\* ProjectParser.parse: the project, or the exception raised; walk is the
\* order in which root.rglob yields the files, root.manifest the manifest
\* given explicitly or discovered
ProjectParser_parse(root, walk) ==
    IF ~root.exists \/ ~root.is_dir
    THEN [exc |-> "ParserError", project |-> NoProject]
    ELSE IF root.manifest.kind # "none"
    THEN LET loaded == _load_manifest(root.manifest) IN
         IF loaded.exc # None
         THEN [exc |-> loaded.exc, project |-> NoProject]
         ELSE IF root.manifest.kind = "nonobject"
         THEN \* data.get on a list
              [exc |-> "AttributeError", project |-> NoProject]
         ELSE [exc |-> None, project |-> ParsedFrom(root, loaded.data, TRUE)]
    ELSE [exc |-> None, project |-> ParsedFrom(root, _derive_manifest(root, walk), FALSE)]

----------------------------------------------------------------------------
(* testing.py *)

ExpFail    == <<"f","a","i","l">>
ExpFailed  == <<"f","a","i","l","e","d">>
ExpWarn    == <<"w","a","r","n">>
ExpWarning == <<"w","a","r","n","i","n","g">>
ExpPass    == <<"p","a","s","s">>

DEFAULT_SCENARIOS == <<"prompt-injection", "pii-leakage", "harmful-content", "tool-abuse">>

\* TestRunner.run: the loop body for one scenario
ScenarioStep(proj, scenario) ==
    LET expectations == Get(proj.metadata, "test_expectations", EmptyDict)
        notes        == Get(proj.metadata, "test_notes", EmptyDict)
        expectation  == Lower(Get(expectations, scenario, ExpPass))
        detail       == Get(notes, scenario, None)
    IN  IF expectation \in {ExpFail, ExpFailed}
        THEN [ results  |-> <<[name |-> scenario, status |-> "failed", details |-> detail]>>,
               findings |-> << RadarFinding(
                    "SCENARIO-FAIL::" \o scenario,
                    "Scenario '" \o scenario \o "' failed security tests",
                    SevHigh,
                    "Scenario '" \o scenario \o "' produced an unsafe response during radar tests.",
                    <<"LLM01">>, <<"Agentic-Adversarial">>,
                    scenario,
                    "Review guardrails and mitigations for this scenario.",
                    "scenario-runner",
                    EmptyDict) >> ]
        ELSE IF expectation \in {ExpWarn, ExpWarning}
        THEN [ results  |-> <<[name |-> scenario, status |-> "warning", details |-> detail]>>,
               findings |-> << RadarFinding(
                    "SCENARIO-WARN::" \o scenario,
                    "Scenario '" \o scenario \o "' produced warning signals",
                    SevMedium,
                    "Scenario '" \o scenario \o "' triggered warning-level mitigations.",
                    <<"LLM03">>, <<"Agentic-Adversarial">>,
                    scenario,
                    "Investigate mitigations and tighten guard thresholds.",
                    "scenario-runner",
                    EmptyDict) >> ]
        ELSE [ results  |-> <<[name |-> scenario, status |-> "passed", details |-> detail]>>,
               findings |-> <<>> ]

\* TestRunner.run always running the runner's own scenarios
TestRunner_runOwnScenarios(proj, override_scenarios) ==
    LET steps == [i \in DOMAIN DEFAULT_SCENARIOS |-> ScenarioStep(proj, DEFAULT_SCENARIOS[i])]
    IN  [ findings |-> Flatten([i \in DOMAIN steps |-> steps[i].findings]),
          results  |-> Flatten([i \in DOMAIN steps |-> steps[i].results]) ]

\* TestRunner.run(project, override_scenarios)
TestRunner_run(proj, override_scenarios) ==
    LET scenario_names == IF override_scenarios # <<>> THEN override_scenarios
                          ELSE DEFAULT_SCENARIOS
        steps == [i \in DOMAIN scenario_names |-> ScenarioStep(proj, scenario_names[i])]
    IN  [ findings |-> Flatten([i \in DOMAIN steps |-> steps[i].findings]),
          results  |-> Flatten([i \in DOMAIN steps |-> steps[i].results]) ]

----------------------------------------------------------------------------
(* Inputs: manifests, project roots, detectors *)

SrcHttps    == <<"h","t","t","p","s",":","/","/","e","x">>
SrcInternal == <<"i","n","t","e","r","n","a","l">>

\* the manifest of tests/test_runner.py (seed scenarios S1 to S4)
ManifestSample ==
    [ project      |-> "sample-app",
      agents       |-> <<[name |-> "orchestrator", tools |-> <<"search", "email">>]>>,
      tools        |-> << [name |-> "search", version |-> None, source |-> SrcHttps],
                          [name |-> "email", version |-> "1.2.3", source |-> SrcInternal] >>,
      mcp_servers  |-> << [name |-> "inventory", endpoint |-> "https://inventory.example",
                           capabilities |-> <<>>, auth_mode |-> "anonymous"] >>,
      dependencies |-> << [name |-> "requests", version |-> "2.0.0",
                           vulnerabilities |->
                              << [id |-> "CVE-2024-9999", severity |-> SevHigh,
                                  description |-> "SSL verification bypass",
                                  fix_version |-> "2.31.0"] >>] >>,
      metadata     |-> [ environment       |-> "staging",
                         test_expectations |-> [x \in {"prompt-injection", "pii-leakage"} |->
                                                  IF x = "prompt-injection" THEN ExpFail ELSE ExpPass],
                         test_notes        |-> [x \in {"prompt-injection"} |->
                                                  "Guardrail rejected prompt"] ] ]

\* a manifest that names things twice
ManifestRepeats ==
    [ project      |-> "repeats",
      tools        |-> << [name |-> "search", source |-> SrcInternal],
                          [name |-> "search", source |-> SrcHttps] >>,
      mcp_servers  |-> << [name |-> "inventory", endpoint |-> "https://a", auth_mode |-> "token"],
                          [name |-> "inventory", endpoint |-> "https://b", auth_mode |-> "mtls"] >>,
      dependencies |-> << [name |-> "requests",
                           vulnerabilities |->
                              << [id |-> "CVE-1", severity |-> <<"H","I","G","H">>],
                                 [id |-> "CVE-1", severity |-> SevLow] >>] >>,
      metadata     |-> [ test_expectations |->
                            [x \in {"pii-leakage", "prompt-injection"} |->
                                IF x = "pii-leakage" THEN <<"W","A","R","N">>
                                ELSE <<"F","a","i","l","e","d">>] ] ]

\* a manifest whose vulnerability entry has "severity": null
ManifestNullSeverity ==
    [ project_name |-> "nulls",
      tools        |-> << [name |-> "email", version |-> "1.2.3"] >>,
      dependencies |-> << [name |-> "urllib3",
                           vulnerabilities |-> << [cve |-> "CVE-2", severity |-> NoneChars] >>] >>,
      metadata     |-> [ test_expectations |->
                            [x \in {"pii-leakage", "prompt-injection"} |->
                                IF x = "pii-leakage" THEN <<"s","k","i","p">>
                                ELSE ExpWarning] ] ]

\* the manifest {}
ManifestEmpty == EmptyDict

Root(exists, is_dir, manifest, py_files) ==
    [ name     |-> "project",
      exists   |-> exists,
      is_dir   |-> is_dir,
      manifest |-> manifest,
      py_files |-> py_files ]

\* the project roots a run may be pointed at
Roots ==
    { Root(FALSE, FALSE, NoManifest, {}),
      Root(TRUE, FALSE, NoManifest, {}),
      Root(TRUE, TRUE, Malformed, {}),
      Root(TRUE, TRUE, NoManifest,
           { PyFile("a", <<"m","y","_","a","g","e","n","t">>),
             PyFile("b", <<"m","y","_","a","g","e","n","t">>),
             PyFile("a", <<"t","e","s","t","_","x">>),
             PyFile("a", <<"t","o","o","l","s">>) }),
      Root(TRUE, TRUE, Loaded(ManifestSample), {PyFile("a", <<"t","o","o","l","s">>)}),
      Root(TRUE, TRUE, Loaded(ManifestRepeats), {}),
      Root(TRUE, TRUE, Loaded(ManifestNullSeverity), {}),
      Root(TRUE, TRUE, Loaded(ManifestEmpty), {}) }

\* runner._default_detectors
_default_detectors ==
    << [kind |-> "tool-inventory", name |-> "tool-inventory"],
       [kind |-> "mcp-server", name |-> "mcp-server"],
       [kind |-> "dependency-vulnerability", name |-> "dependency-vulnerability"] >>

\* detectors a caller may put in ScanConfig.detectors
CallerDetectors ==
    { [kind |-> "tool-inventory", name |-> "tool-inventory"],
      [kind |-> "raising", name |-> "broken"],
      [kind |-> "custom",
       emits |-> << RadarFinding("CUSTOM::x", "custom finding", <<" ","H","i","g","h"," ">>,
                                 "emitted as constructed", <<>>, <<>>, None, None,
                                 "custom", EmptyDict),
                    RadarFinding("CUSTOM::y", "custom finding", <<"s","e","v","e","r","e">>,
                                 "emitted as constructed", <<>>, <<>>, None, None,
                                 "custom", EmptyDict) >>] }

NotGiven == [given |-> FALSE]
Given(v) == [given |-> TRUE, value |-> v]

\* a value json.dump cannot serialise
NotJSON == "<object>"

ScenarioNames == {"prompt-injection", "pii-leakage"}

\* severity values of manifest vulnerability entries
DetectSeverities ==
    { NoneChars, <<"H","I","G","H">>, <<"M","o","d","e","r","a","t","e">>, SevLow,
      SevCritical, SevMedium, SevInfo, <<" ","h","i","g","h">> }

CallerMetadata ==
    { EmptyDict,
      [release |-> "2025.09", scenario_failures |-> <<"stale">>, mode |-> "nightly"],
      [hook |-> NotJSON] }

\* the first of ProjectParser.manifest_candidates, under the project root
ManifestPath == "project/agentic_radar.json"

\* ScanConfig / TestConfig
Configs ==
    ( { [ test                     |-> t,
        output_path              |-> "out/report.json",
        object_store_path        |-> osp,
        trace_ids                |-> <<"trace-1">>,
        metadata                 |-> md,
        detectors                |-> ds,
        include_project_snapshot |-> TRUE,
        scenarios                |-> sc ] :
        t \in BOOLEAN,
        osp \in {None, "store", "out"},
        md \in CallerMetadata,
        ds \in {NotGiven} \cup {Given(l) : l \in BoundedSeq(CallerDetectors, MaxDetectors)},
        sc \in BoundedSeq(ScenarioNames, MaxScenarios) }
    \ {c \in [test : {FALSE}, output_path : {"out/report.json"},
               object_store_path : {None, "store", "out"}, trace_ids : {<<"trace-1">>},
               metadata : CallerMetadata,
               detectors : {NotGiven} \cup {Given(l) : l \in BoundedSeq(CallerDetectors, MaxDetectors)},
               include_project_snapshot : {TRUE},
               scenarios : BoundedSeq(ScenarioNames, MaxScenarios)] : c.scenarios # <<>>} )
    \cup { [ test                     |-> FALSE,
            output_path              |-> ManifestPath,
            object_store_path        |-> None,
            trace_ids                |-> <<"trace-1">>,
            metadata                 |-> EmptyDict,
            detectors                |-> NotGiven,
            include_project_snapshot |-> TRUE,
            scenarios                |-> <<>> ] }

----------------------------------------------------------------------------
(* runner.py *)

\* runner._resolve_detectors
_resolve_detectors(detectors) ==
    IF ~detectors.given THEN _default_detectors ELSE detectors.value

\* Path(output_path).name and Path(output_path).parent
BaseName(path) ==
    CASE path = "out/report.json" -> "report.json"
      [] path = ManifestPath      -> "agentic_radar.json"
      [] OTHER                    -> path

Parent(path) ==
    CASE path = "out/report.json" -> "out"
      [] path = ManifestPath      -> "project"
      [] OTHER                    -> "."

\* RadarFinding.to_dict handing the severity on as it is
FindingToDictRaw(f) ==
    [ id            |-> f.identifier,
      title         |-> f.title,
      severity      |-> f.severity,
      description   |-> f.description,
      owasp_llm     |-> f.owasp_llm,
      owasp_agentic |-> f.owasp_agentic,
      subject       |-> f.subject,
      remediation   |-> f.remediation,
      detector      |-> f.detector,
      metadata      |-> f.metadata ]

\* RadarFinding.to_dict
FindingToDict(f) ==
    [ id            |-> f.identifier,
      title         |-> f.title,
      severity      |-> normalize_severity(f.severity),
      description   |-> f.description,
      owasp_llm     |-> f.owasp_llm,
      owasp_agentic |-> f.owasp_agentic,
      subject       |-> f.subject,
      remediation   |-> f.remediation,
      detector      |-> f.detector,
      metadata      |-> f.metadata ]

\* ScenarioResult.to_dict
ScenarioToDict(res) == [name |-> res.name, status |-> res.status, details |-> res.details]

\* Tool.to_dict, MCPServer.to_dict, Dependency.to_dict, AgentComponent.to_dict
ToolToDict(t) == [name |-> t.name, version |-> t.version, source |-> t.source, scope |-> t.scope]

ServerToDict(m) ==
    [name |-> m.name, endpoint |-> m.endpoint, capabilities |-> m.capabilities,
     auth_mode |-> m.auth_mode]

DependencyToDict(d) ==
    [name |-> d.name, version |-> d.version, license |-> d.license,
     vulnerabilities |-> d.vulnerabilities]

AgentToDict(a) == [name |-> a.name, description |-> a.description, tools |-> a.tools]

\* ParsedProject.to_dict
ProjectToDict(p) ==
    [ root         |-> p.root,
      project_name |-> p.project_name,
      agents       |-> MapSeq(AgentToDict, p.agents),
      tools        |-> MapSeq(ToolToDict, p.tools),
      mcp_servers  |-> MapSeq(ServerToDict, p.mcp_servers),
      dependencies |-> MapSeq(DependencyToDict, p.dependencies),
      metadata     |-> p.metadata ]

\* the fields of RadarReport.to_dict but generated_at
ReportDictBody(r) ==
    [ project_name     |-> r.project_name,
      mode             |-> r.mode,
      summary          |-> r.summary,
      findings         |-> MapSeq(FindingToDict, r.findings),
      parsed_project   |-> IF r.parsed_project = NoProject
                           THEN NoProject ELSE ProjectToDict(r.parsed_project),
      trace_ids        |-> r.trace_ids,
      scenario_results |-> MapSeq(ScenarioToDict, r.scenario_results),
      metadata         |-> r.metadata ]

\* RadarReport.to_dict; a report the model built without a clock reading
\* has no generated_at
ReportToDict(r) ==
    IF "generated_at" \in DOMAIN r
    THEN Put(ReportDictBody(r), "generated_at", r.generated_at)
    ELSE ReportDictBody(r)

\* RadarReport.from_dict: one finding; the entry without its subject
FindingFromDictNoSubject(item) ==
    RadarFinding(Get(item, "id", "unknown"), Get(item, "title", ""),
                 Get(item, "severity", SevUnknown), Get(item, "description", ""),
                 Get(item, "owasp_llm", <<>>), Get(item, "owasp_agentic", <<>>),
                 None, Get(item, "remediation", None),
                 Get(item, "detector", None), Get(item, "metadata", EmptyDict))

\* RadarReport.from_dict: one finding
FindingFromDict(item) ==
    RadarFinding(Get(item, "id", "unknown"), Get(item, "title", ""),
                 Get(item, "severity", SevUnknown), Get(item, "description", ""),
                 Get(item, "owasp_llm", <<>>), Get(item, "owasp_agentic", <<>>),
                 Get(item, "subject", None), Get(item, "remediation", None),
                 Get(item, "detector", None), Get(item, "metadata", EmptyDict))

\* RadarReport.from_dict: one scenario result
ScenarioFromDict(item) ==
    [ name    |-> Get(item, "name", "unknown"),
      status  |-> Get(item, "status", "unknown"),
      details |-> Get(item, "details", None) ]

\* RadarReport.from_dict: the snapshot, when the payload has a truthy one
ProjectFromDict(parsed_payload) ==
    [ root         |-> Get(parsed_payload, "root", "."),
      project_name |-> Get(parsed_payload, "project_name", "unknown"),
      agents       |-> MapSeq(AgentOf, Get(parsed_payload, "agents", <<>>)),
      tools        |-> MapSeq(ToolOf, Get(parsed_payload, "tools", <<>>)),
      mcp_servers  |-> MapSeq(ServerOf, Get(parsed_payload, "mcp_servers", <<>>)),
      dependencies |-> MapSeq(DependencyOf, Get(parsed_payload, "dependencies", <<>>)),
      metadata     |-> Get(parsed_payload, "metadata", EmptyDict) ]

\* the clock reading from_dict takes when the payload has no generated_at
Now == "now"

\* RadarReport.from_dict
from_dict(payload) ==
    LET parsed_payload == Get(payload, "parsed_project", NoProject) IN
    [ project_name     |-> Get(payload, "project_name", "unknown"),
      mode             |-> Get(payload, "mode", "scan"),
      generated_at     |-> Get(payload, "generated_at", Now),
      findings         |-> MapSeq(FindingFromDict, Get(payload, "findings", <<>>)),
      parsed_project   |-> IF parsed_payload = NoProject \/ DOMAIN parsed_payload = {}
                           THEN NoProject ELSE ProjectFromDict(parsed_payload),
      summary          |-> Get(payload, "summary", EmptyDict),
      trace_ids        |-> Get(payload, "trace_ids", <<>>),
      scenario_results |-> MapSeq(ScenarioFromDict, Get(payload, "scenario_results", <<>>)),
      metadata         |-> Get(payload, "metadata", EmptyDict) ]

\* json.dump accepts the value
Serialisable(md) == \A k \in DOMAIN md : md[k] # NotJSON

\* the metadata run_scan / run_test hand to build_report
RunMetadata(cfg, detectors, scenario_names, scenario_results) ==
    LET names == MapSeq(DetectorName, detectors)
        md1 == SetDefault(cfg.metadata, "mode", IF cfg.test THEN "test" ELSE "scan")
        md2 == SetDefault(md1, "detectors",
                          IF cfg.test THEN names \o <<"scenario-runner">> ELSE names)
        md3 == SetDefault(md2, "trace_id_count", Len(cfg.trace_ids))
        failed == SelectSeq(scenario_results, LAMBDA res : res.status = "failed")
    IN  IF cfg.test
        THEN Put(Put(md3, "scenarios", scenario_names),
                 "scenario_failures", [i \in DOMAIN failed |-> failed[i].name])
        ELSE md3

NoError == [type |-> "none", at |-> "none"]
Error(type, at) == [type |-> type, at |-> at]

\* the file at output_path
FileAbsent      == [state |-> "absent"]
FilePartial     == [state |-> "partial"]
FileComplete(c) == [state |-> "complete", content |-> c]

\* a report left at output_path by an earlier run
OldReport == [project_name |-> "earlier-run"]

\* _write_and_store does its steps in another order: replicate, then write
StoreBeforeWrite(at, cfg) ==
    CASE at = "build" -> "store"
      [] at = "store" -> IF Truthy(cfg.object_store_path) THEN "put" ELSE "open"
      [] at = "put"   -> "open"
      [] at = "open"  -> "dump"
      [] at = "dump"  -> "return"

\* run_scan / run_test from the built report on: _write_and_store writes
\* the report (open, dump), then replicates it (store, put), then returns
NextStep(at, cfg) ==
    CASE at = "build" -> "open"
      [] at = "open"  -> "dump"
      [] at = "dump"  -> "store"
      [] at = "store" -> IF Truthy(cfg.object_store_path) THEN "put" ELSE "return"
      [] at = "put"   -> "return"

RunIdle ==
    /\ pc = "idle"
    /\ config = [test |-> FALSE]
    /\ disk = Root(FALSE, FALSE, NoManifest, {})
    /\ project = NoProject
    /\ detIdx = 1
    /\ findings = <<>>
    /\ scenario_out = [findings |-> <<>>, results |-> <<>>]
    /\ report = NoReport
    /\ outFile = FileAbsent
    /\ store = Absent
    /\ raised = NoError
    /\ result = NoResult
    /\ runNo = 1
    /\ firstReport = NoReport

RunInit ==
    /\ pc = "parse"
    /\ config \in Configs
    /\ disk \in Roots
    /\ project = NoProject
    /\ detIdx = 1
    /\ findings = <<>>
    /\ scenario_out = [findings |-> <<>>, results |-> <<>>]
    /\ report = NoReport
    /\ outFile \in {FileAbsent, FileComplete(OldReport)}
    /\ store = Absent
    /\ raised = NoError
    /\ result = NoResult
    /\ runNo = 1
    /\ firstReport = NoReport

Fail(type) ==
    /\ raised' = Error(type, pc)
    /\ pc' = "failed"

\* _parse_project
Parse ==
    /\ pc = "parse"
    /\ \E walk \in Orders(disk.py_files) :
         LET out == ProjectParser_parse(disk, walk) IN
         IF out.exc # None
         THEN Fail(out.exc) /\ UNCHANGED project
         ELSE /\ project' = out.project
              /\ pc' = "detect"
              /\ UNCHANGED raised
    /\ UNCHANGED <<buildVars, packVars, fnVars, osVars, runNo, firstReport, config, disk, detIdx, findings, scenario_out, report, outFile, store, result>>

\* run_detectors: one turn of the loop
RunDetector ==
    /\ pc = "detect"
    /\ LET detectors == _resolve_detectors(config.detectors) IN
         /\ detIdx <= Len(detectors)
         /\ LET out == Detector_run(detectors[detIdx], project) IN
              IF out.exc # None
              THEN Fail(out.exc) /\ UNCHANGED <<findings, detIdx>>
              ELSE /\ findings' = Extend(findings, out)
                   /\ detIdx' = detIdx + 1
                   /\ UNCHANGED <<pc, raised>>
    /\ UNCHANGED <<buildVars, packVars, fnVars, osVars, runNo, firstReport, config, disk, project, scenario_out, report, outFile, store, result>>

\* run_detectors returns
DetectorsDone ==
    /\ pc = "detect"
    /\ detIdx > Len(_resolve_detectors(config.detectors))
    /\ pc' = IF config.test THEN "scenarios" ELSE "build"
    /\ UNCHANGED <<buildVars, packVars, fnVars, osVars, runNo, firstReport, config, disk, project, detIdx, findings, scenario_out, report,
                   outFile, store, raised, result>>

\* run_test: the scenario names, then TestRunner.run
ScenarioNamesOf(cfg) == IF cfg.scenarios # <<>> THEN cfg.scenarios ELSE DEFAULT_SCENARIOS

RunScenarios ==
    /\ pc = "scenarios"
    /\ scenario_out' = TestRunner_run(project, ScenarioNamesOf(config))
    /\ pc' = "build"
    /\ UNCHANGED <<buildVars, packVars, fnVars, osVars, runNo, firstReport, config, disk, project, detIdx, findings, report, outFile, store,
                   raised, result>>

\* run_scan / run_test: findings + scenario_findings, metadata, build_report
AllFindings(fs_, scen) == fs_ \o scen.findings

BuildReport ==
    /\ pc = "build"
    /\ report' = ReportBuilder_build(
                    project,
                    AllFindings(findings, scenario_out),
                    IF config.test THEN "test" ELSE "scan",
                    config.trace_ids,
                    scenario_out.results,
                    RunMetadata(config, _resolve_detectors(config.detectors),
                                ScenarioNamesOf(config), scenario_out.results),
                    config.include_project_snapshot)
    /\ pc' = NextStep("build", config)
    /\ UNCHANGED <<buildVars, packVars, fnVars, osVars, runNo, firstReport, config, disk, project, detIdx, findings, scenario_out, outFile,
                   store, raised, result>>

\* the project root once a file has been written at path: a file written
\* where the parser looks for a manifest is the manifest from then on
WrittenAt(root, path, content) ==
    IF path = ManifestPath /\ root.exists /\ root.is_dir
    THEN [root EXCEPT !.manifest = content]
    ELSE root

\* RadarReport.write_json: mkdir, then path.open("w") creates or truncates
OpenOutput ==
    /\ pc = "open"
    /\ \/ /\ outFile' = FilePartial
          /\ disk' = WrittenAt(disk, config.output_path, Malformed)
          /\ pc' = NextStep("open", config)
          /\ UNCHANGED raised
       \/ /\ Fail("OSError")
          /\ UNCHANGED <<outFile, disk>>
    /\ UNCHANGED <<buildVars, packVars, fnVars, osVars, runNo, firstReport, config, project, detIdx, findings, scenario_out, report,
                   store, result>>

\* RadarReport.write_json: json.dump streams the report into the open file;
\* leaving the with block closes it, also when dump raises
DumpReport ==
    /\ pc = "dump"
    /\ \/ /\ Serialisable(config.metadata)
          /\ outFile' = FileComplete(ReportToDict(report))
          /\ disk' = WrittenAt(disk, config.output_path, Loaded(ReportToDict(report)))
          /\ pc' = NextStep("dump", config)
          /\ UNCHANGED raised
       \/ /\ ~Serialisable(config.metadata)
          /\ Fail("TypeError")
          /\ UNCHANGED <<outFile, disk>>
       \/ /\ Fail("OSError")
          /\ UNCHANGED <<outFile, disk>>
    /\ UNCHANGED <<buildVars, packVars, fnVars, osVars, runNo, firstReport, config, project, detIdx, findings, scenario_out, report,
                   store, result>>

\* _write_and_store: LocalObjectStore(config.object_store_path) makes the
\* directory, when a store is configured
CreateStore ==
    /\ pc = "store"
    /\ \/ /\ pc' = NextStep("store", config)
          /\ store' = IF config.object_store_path = "store" /\ store = Absent
                      THEN EmptyDict ELSE store
          /\ UNCHANGED raised
       \/ /\ Truthy(config.object_store_path)
          /\ Fail("OSError")
          /\ UNCHANGED store
    /\ UNCHANGED <<buildVars, packVars, fnVars, osVars, runNo, firstReport, config, disk, project, detIdx, findings, scenario_out, report,
                   outFile, result>>

\* LocalObjectStore.put_file(output_path, destination_name=output_path.name)
PutFile ==
    /\ pc = "put"
    /\ IF outFile.state = "absent"
       THEN Fail("ObjectStoreError") /\ UNCHANGED store
       ELSE IF config.object_store_path = Parent(config.output_path)
       THEN \* source and destination are one file: shutil raises SameFileError
            Fail("SameFileError") /\ UNCHANGED store
       ELSE \/ /\ store' = Put(store, BaseName(config.output_path), outFile)
               /\ pc' = NextStep("put", config)
               /\ UNCHANGED raised
            \/ /\ store' = Put(store, BaseName(config.output_path), FilePartial)
               /\ Fail("OSError")
    /\ UNCHANGED <<buildVars, packVars, fnVars, osVars, runNo, firstReport, config, disk, project, detIdx, findings, scenario_out, report,
                   outFile, result>>

\* return ScanResult(...) / TestResult(...)
Return ==
    /\ pc = "return"
    /\ result' = [ report           |-> report,
                   output_path      |-> config.output_path,
                   stored_artifact  |-> IF Truthy(config.object_store_path)
                                        THEN config.object_store_path \o "/"
                                             \o BaseName(config.output_path)
                                        ELSE None,
                   scenario_results |-> scenario_out.results ]
    /\ pc' = "done"
    /\ UNCHANGED <<buildVars, packVars, fnVars, osVars, runNo, firstReport, config, disk, project, detIdx, findings, scenario_out, report,
                   outFile, store, raised>>

\* the caller calls run_scan again with the same configuration; the project
\* on disk is as it was, the report file and the object store are as the
\* first call left them
Rescan ==
    /\ pc = "done"
    /\ ~config.test
    /\ runNo = 1
    /\ runNo' = 2
    /\ firstReport' = report
    /\ project' = NoProject
    /\ detIdx' = 1
    /\ findings' = <<>>
    /\ report' = NoReport
    /\ result' = NoResult
    /\ pc' = "parse"
    /\ UNCHANGED <<buildVars, packVars, fnVars, osVars, config, disk, scenario_out, outFile, store, raised>>

----------------------------------------------------------------------------
(* SpecBuild: ReportBuilder.build on bounded inputs *)

SeverityInputs ==
    { SevHigh, <<"H","I","G","H">>, <<" ","L","o","w","\n">>, SevModerate, SevInfo,
      SevCritical, <<"b","o","g","u","s">>, KeyTotal, <<>>, NoneChars,
      <<"M","e","d","i","u","m">> }

FindingInputs ==
    { RadarFinding("F::a", "a finding", sev, "as given", <<>>, <<>>, None, None,
                   "custom", EmptyDict) : sev \in SeverityInputs }

BuildIdle ==
    /\ bpc = "idle"
    /\ bProject = NoProject
    /\ bFindings = <<>>
    /\ bReport = NoReport

BuildInit ==
    /\ bpc = "input"
    /\ bProject = ParsedFrom(Root(TRUE, TRUE, Loaded(ManifestSample), {}), ManifestSample, TRUE)
    /\ bFindings \in BoundedSeq(FindingInputs, MaxFindings)
    /\ bReport = NoReport

\* ReportBuilder(include_project_snapshot).build(project, findings, mode=...)
Build ==
    /\ bpc = "input"
    /\ \E mode \in {"scan", "test"}, snapshot \in BOOLEAN :
         bReport' = ReportBuilder_build(bProject, bFindings, mode, <<>>, <<>>,
                                        EmptyDict, snapshot)
    /\ bpc' = "built"
    /\ UNCHANGED <<bProject, bFindings, runVars, packVars, fnVars, osVars>>

----------------------------------------------------------------------------
(* Paths: a path is the sequence of its components, a component is text *)

nWork            == <<"w">>
nD2              == <<"d","2">>
nFd              == <<"f","d">>
nLogs            == <<"l","o","g","s">>
nNested          == <<"n","e","s","t","e","d">>
nReportJson      == <<"r","e","p","o","r","t",".","j","s","o","n">>
nMissingJson     == <<"m","i","s","s","i","n","g",".","j","s","o","n">>
nRadarLog        == <<"r","a","d","a","r",".","l","o","g">>
nAuditLog        == <<"a","u","d","i","t",".","l","o","g">>
nNestedLog       == <<"n","e","s","t","e","d",".","l","o","g">>
nOutZip          == <<"o","u","t",".","z","i","p">>
nEvidencePackZip == <<"e","v","i","d","e","n","c","e","-","p","a","c","k",".","z","i","p">>
nMetadataJson    == <<"m","e","t","a","d","a","t","a",".","j","s","o","n">>

Slash        == <<"/">>
FindingsPfx  == <<"f","i","n","d","i","n","g","s","/">>
LogsPfx      == <<"l","o","g","s","/">>

\* no path given (None)
NoPath == <<>>

\* the characters of the names above in code point order: str comparison
\* compares code points
CodeOrder ==
    << "-", ".", "/", "0", "1", "2", "3", "4", "5", "6", "7", "8", "9", "_",
       "a", "b", "c", "d", "e", "f", "g", "h", "i", "j", "k", "l", "m",
       "n", "o", "p", "q", "r", "s", "t", "u", "v", "w", "x", "y", "z" >>

Code(c) == CHOOSE i \in DOMAIN CodeOrder : CodeOrder[i] = c

\* str.__lt__
RECURSIVE StrLess(_, _)
StrLess(a, b) ==
    IF b = <<>> THEN FALSE
    ELSE IF a = <<>> THEN TRUE
    ELSE IF Head(a) # Head(b) THEN Code(Head(a)) < Code(Head(b))
    ELSE StrLess(Tail(a), Tail(b))

\* PurePath.__lt__: the lists of components compare as lists
RECURSIVE PathLess(_, _)
PathLess(p, q) ==
    IF q = <<>> THEN FALSE
    ELSE IF p = <<>> THEN TRUE
    ELSE IF Head(p) # Head(q) THEN StrLess(Head(p), Head(q))
    ELSE PathLess(Tail(p), Tail(q))

\* sorted(paths): insertion of one path into a sorted list
RECURSIVE Insert(_, _)
Insert(p, sorted) ==
    IF sorted = <<>> THEN <<p>>
    ELSE IF PathLess(p, Head(sorted)) THEN <<p>> \o sorted
    ELSE <<Head(sorted)>> \o Insert(p, Tail(sorted))

RECURSIVE SortPaths(_)
SortPaths(paths) ==
    IF paths = <<>> THEN <<>> ELSE Insert(Head(paths), SortPaths(Tail(paths)))

\* the paths as the directory walk yielded them
WalkOrder(paths) == paths

\* sorted(p for p in logs_path.rglob("*") if p.is_file())
SortedWalk(paths) == SortPaths(paths)

\* Path.name and Path.parent
PathName(p)   == p[Len(p)]
PathParent(p) == SubSeq(p, 1, Len(p) - 1)

\* str(path): the components joined by "/"
RECURSIVE PathStr(_)
PathStr(p) ==
    IF p = <<>> THEN <<>>
    ELSE IF Len(p) = 1 THEN Head(p)
    ELSE Head(p) \o Slash \o PathStr(Tail(p))

\* file_path.relative_to(logs_path)
RelativeTo(p, base) == SubSeq(p, Len(base) + 1, Len(p))

IsUnder(p, base) == Len(p) > Len(base) /\ SubSeq(p, 1, Len(base)) = base

Ancestors(p) == {SubSeq(p, 1, k) : k \in 1..(Len(p) - 1)}

----------------------------------------------------------------------------
(* evidence.py *)

TextFile(t) == [text |-> t]
ZipFile(entries, closed) == [zip |-> entries, closed |-> closed]

\* arcname = f"findings/{findings_path.name}"
FindingsArcname(findings_path) == FindingsPfx \o PathName(findings_path)

\* the log entry named after the file alone
LogArcnameFlat(file_path, logs_path) == LogsPfx \o PathName(file_path)

\* arcname = f"logs/{file_path.relative_to(logs_path)}"
LogArcname(file_path, logs_path) == LogsPfx \o PathStr(RelativeTo(file_path, logs_path))

\* ZipFile.write(path, arcname): the entry added; a directory is stored
\* under arcname + "/" with no content
ArchiveWrite(files, directories, path, arcname) ==
    IF path \in directories
    THEN [name |-> arcname \o Slash, content |-> TextFile("")]
    ELSE [name |-> arcname, content |-> files[path]]

Exists(files, directories, path) == path \in DOMAIN files \/ path \in directories

\* the files a build may be pointed at
Work == <<nWork>>

LogFilePool ==
    { Work \o <<nLogs, nRadarLog>>,
      Work \o <<nLogs, nNested, nAuditLog>>,
      Work \o <<nLogs, nNestedLog>> }

FindingsPool ==
    { Work \o <<nReportJson>>,          \* a report
      Work \o <<nD2, nReportJson>>,     \* a report of the same name elsewhere
      Work \o <<nMissingJson>>,         \* no such file
      Work \o <<nFd>> }                 \* a directory

BaseDirs ==
    { Work, Work \o <<nD2>>, Work \o <<nFd>>, Work \o <<nLogs>>, Work \o <<nLogs, nNested>> }

BaseFiles(logs) ==
    [ p \in {Work \o <<nReportJson>>, Work \o <<nD2, nReportJson>>} \cup logs |->
        IF p = Work \o <<nReportJson>> THEN TextFile("report A")
        ELSE IF p = Work \o <<nD2, nReportJson>> THEN TextFile("report B")
        ELSE TextFile("log of " \o PathName(p)[1]) ]

PackArgs ==
    [ findings_paths : BoundedSeq(FindingsPool, MaxPaths),
      logs_path      : {NoPath, Work \o <<nLogs>>, Work \o <<nLogs, nRadarLog>>, Work \o <<nD2>>},
      trace_ids      : {<<"trace-1">>},
      output_path    : {NoPath, Work \o <<nOutZip>>, Work \o <<nLogs, nOutZip>>},
      object_store   : BOOLEAN ]

PackInit ==
    /\ ppc = "validate"
    /\ pargs \in PackArgs
    /\ \E logs \in SUBSET LogFilePool : fs = BaseFiles(logs)
    /\ dirs = BaseDirs
    /\ output_path = NoPath
    /\ findIdx = 1
    /\ zipEntries = <<>>
    /\ metadata = EmptyDict
    /\ praised = NoError
    /\ presult = NoResult
    /\ pstore = EmptyDict
    /\ buildNo = 1
    /\ firstZip = FileAbsent

PackIdle ==
    /\ ppc = "idle"
    /\ pargs = [none |-> TRUE]
    /\ fs = EmptyDict
    /\ dirs = {}
    /\ output_path = NoPath
    /\ findIdx = 1
    /\ zipEntries = <<>>
    /\ metadata = EmptyDict
    /\ praised = NoError
    /\ presult = NoResult
    /\ pstore = EmptyDict
    /\ buildNo = 1
    /\ firstZip = FileAbsent

\* build: the checks before anything is written
PackValidate ==
    /\ ppc = "validate"
    /\ LET findings_list == pargs.findings_paths IN
         IF findings_list = <<>>
         THEN praised' = Error("ValueError", "validate") /\ ppc' = "failed"
         ELSE IF \E i \in DOMAIN findings_list : ~Exists(fs, dirs, findings_list[i])
         THEN praised' = Error("FileNotFoundError", "validate") /\ ppc' = "failed"
         ELSE ppc' = "prepare" /\ UNCHANGED praised
    /\ UNCHANGED <<buildVars, runVars, fnVars, osVars, pargs, fs, dirs, output_path, findIdx, zipEntries,
                   metadata, presult, pstore, buildNo, firstZip>>

\* build: output_path, its parent directory, the metadata dict; created_at
\* is the clock reading, which differs from one build to the next
PackPrepare ==
    /\ ppc = "prepare"
    /\ output_path' = IF pargs.output_path # NoPath THEN pargs.output_path
                      ELSE PathParent(pargs.findings_paths[1]) \o <<nEvidencePackZip>>
    /\ dirs' = dirs \cup Ancestors(output_path')
    /\ metadata' = [ artifact_type |-> "agentic-radar-evidence",
                     created_at    |-> buildNo,
                     findings      |-> <<>>,
                     logs          |-> <<>>,
                     trace_ids     |-> pargs.trace_ids ]
    /\ ppc' = "open"
    /\ UNCHANGED <<buildVars, runVars, fnVars, osVars, pargs, fs, findIdx, zipEntries, praised, presult,
                   pstore, buildNo, firstZip>>

\* zipfile.ZipFile(output_path, "w"): the file is created, or emptied
PackOpen ==
    /\ ppc = "open"
    /\ fs' = Put(fs, output_path, ZipFile(<<>>, FALSE))
    /\ zipEntries' = <<>>
    /\ findIdx' = 1
    /\ ppc' = "findings"
    /\ UNCHANGED <<buildVars, runVars, fnVars, osVars, pargs, dirs, output_path, metadata, praised,
                   presult, pstore, buildNo, firstZip>>

\* build: one turn of the loop over findings_list
PackWriteFindings ==
    /\ ppc = "findings"
    /\ findIdx <= Len(pargs.findings_paths)
    /\ LET findings_path == pargs.findings_paths[findIdx]
           arcname       == FindingsArcname(findings_path)
           entries       == Append(zipEntries, ArchiveWrite(fs, dirs, findings_path, arcname))
       IN  /\ zipEntries' = entries
           /\ fs' = Put(fs, output_path, ZipFile(entries, FALSE))
           /\ metadata' = [metadata EXCEPT !.findings = Append(@, arcname)]
    /\ findIdx' = findIdx + 1
    /\ UNCHANGED <<buildVars, runVars, fnVars, osVars, pargs, dirs, output_path, ppc, praised, presult,
                   pstore, buildNo, firstZip>>

PackFindingsDone ==
    /\ ppc = "findings"
    /\ findIdx > Len(pargs.findings_paths)
    /\ ppc' = "logs"
    /\ UNCHANGED <<buildVars, runVars, fnVars, osVars, pargs, fs, dirs, output_path, findIdx, zipEntries,
                   metadata, praised, presult, pstore, buildNo, firstZip>>

\* build: the loop over the sorted log files; each file is read when it is
\* written, the archive itself included when it lies under logs_path
RECURSIVE WriteLogFiles(_, _, _)
WriteLogFiles(paths, entries, logs_path) ==
    IF paths = <<>> THEN entries
    ELSE LET now   == Put(fs, output_path, ZipFile(entries, FALSE))
             entry == ArchiveWrite(now, dirs, Head(paths), LogArcname(Head(paths), logs_path))
         IN  WriteLogFiles(Tail(paths), Append(entries, entry), logs_path)

LogEntryNames(paths, logs_path) == [i \in DOMAIN paths |-> LogArcname(paths[i], logs_path)]

PackLogs ==
    /\ ppc = "logs"
    /\ LET logs_path == pargs.logs_path IN
         IF logs_path = NoPath
         THEN /\ ppc' = "meta"
              /\ UNCHANGED <<fs, zipEntries, metadata, praised>>
         ELSE IF logs_path \in dirs
         THEN \E walk \in Orders({p \in DOMAIN fs : IsUnder(p, logs_path)}) :
                LET files   == SortedWalk(walk)
                    entries == WriteLogFiles(files, zipEntries, logs_path)
                IN  /\ zipEntries' = entries
                    /\ fs' = Put(fs, output_path, ZipFile(entries, FALSE))
                    /\ metadata' = [metadata EXCEPT !.logs = @ \o LogEntryNames(files, logs_path)]
                    /\ ppc' = "meta"
                    /\ UNCHANGED praised
         ELSE IF logs_path \in DOMAIN fs
         THEN LET arcname == LogsPfx \o PathName(logs_path)
                  entries == Append(zipEntries, ArchiveWrite(fs, dirs, logs_path, arcname))
              IN  /\ zipEntries' = entries
                  /\ fs' = Put(fs, output_path, ZipFile(entries, FALSE))
                  /\ metadata' = [metadata EXCEPT !.logs = Append(@, arcname)]
                  /\ ppc' = "meta"
                  /\ UNCHANGED praised
         ELSE \* FileNotFoundError leaves the with block: ZipFile.__exit__
              \* closes the archive with the entries written so far
              /\ fs' = Put(fs, output_path, ZipFile(zipEntries, TRUE))
              /\ praised' = Error("FileNotFoundError", "logs")
              /\ ppc' = "failed"
              /\ UNCHANGED <<zipEntries, metadata>>
    /\ UNCHANGED <<buildVars, runVars, fnVars, osVars, pargs, dirs, output_path, findIdx, presult,
                   pstore, buildNo, firstZip>>

\* archive.writestr("metadata.json", json.dumps(metadata, indent=2))
PackWriteMetadata ==
    /\ ppc = "meta"
    /\ zipEntries' = Append(zipEntries, [name |-> nMetadataJson, content |-> [json |-> metadata]])
    /\ fs' = Put(fs, output_path, ZipFile(zipEntries', FALSE))
    /\ ppc' = "close"
    /\ UNCHANGED <<buildVars, runVars, fnVars, osVars, pargs, dirs, output_path, findIdx, metadata,
                   praised, presult, pstore, buildNo, firstZip>>

\* the with block ends: the archive is closed
PackClose ==
    /\ ppc = "close"
    /\ fs' = Put(fs, output_path, ZipFile(zipEntries, TRUE))
    /\ ppc' = IF pargs.object_store THEN "store" ELSE "return"
    /\ UNCHANGED <<buildVars, runVars, fnVars, osVars, pargs, dirs, output_path, findIdx, zipEntries,
                   metadata, praised, presult, pstore, buildNo, firstZip>>

\* self.object_store.put_file(output_path, destination_name=output_path.name)
PackStore ==
    /\ ppc = "store"
    /\ pstore' = Put(pstore, PathName(output_path), fs[output_path])
    /\ ppc' = "return"
    /\ UNCHANGED <<buildVars, runVars, fnVars, osVars, pargs, fs, dirs, output_path, findIdx, zipEntries,
                   metadata, praised, presult, buildNo, firstZip>>

\* return EvidencePackResult(...)
PackReturn ==
    /\ ppc = "return"
    /\ presult' = [ pack_path   |-> output_path,
                    metadata    |-> metadata,
                    stored_path |-> IF pargs.object_store THEN <<PathName(output_path)>>
                                    ELSE NoPath ]
    /\ ppc' = "done"
    /\ UNCHANGED <<buildVars, runVars, fnVars, osVars, pargs, fs, dirs, output_path, findIdx, zipEntries,
                   metadata, praised, pstore, buildNo, firstZip>>

\* the caller builds again with the same arguments
Rebuild ==
    /\ ppc = "done"
    /\ buildNo = 1
    /\ firstZip' = fs[output_path]
    /\ buildNo' = 2
    /\ output_path' = NoPath
    /\ findIdx' = 1
    /\ zipEntries' = <<>>
    /\ metadata' = EmptyDict
    /\ presult' = NoResult
    /\ ppc' = "validate"
    /\ UNCHANGED <<buildVars, runVars, fnVars, osVars, pargs, fs, dirs, praised, pstore>>

----------------------------------------------------------------------------
(* detectors/vulnerabilities.py and detectors/base.py *)

\* str.upper
Upper(s) ==
    [i \in DOMAIN s |->
        IF \E c \in DOMAIN UpperToLower : UpperToLower[c] = s[i]
        THEN CHOOSE c \in DOMAIN UpperToLower : UpperToLower[c] = s[i]
        ELSE s[i]]

\* needle in hay
Contains(hay, needle) ==
    \E i \in 0..(Len(hay) - Len(needle)) : SubSeq(hay, i + 1, i + Len(needle)) = needle

\* " ".join(parts)
RECURSIVE JoinSpace(_)
JoinSpace(parts) ==
    IF parts = <<>> THEN <<>>
    ELSE IF Len(parts) = 1 THEN parts[1]
    ELSE parts[1] \o <<" ">> \o JoinSpace(Tail(parts))

\* tuple(sorted(set)) of texts
RECURSIVE SortTexts(_)
SortTexts(S) ==
    IF S = {} THEN <<>>
    ELSE LET least == CHOOSE a \in S : \A b \in S \ {a} : StrLess(a, b)
         IN  <<least>> \o SortTexts(S \ {least})

\* a text that is neither None nor empty
TruthyText(v) == v # NoneChars /\ v # <<>>

\* value or ""
OrEmpty(v) == IF TruthyText(v) THEN v ELSE <<>>

\* left or right
OrElse(left, right) == IF TruthyText(left) THEN left ELSE right

\* base.normalise_string
normalise_string(value) == IF value = NoneChars THEN NoneChars ELSE Lower(Strip(value))

LLM_CATEGORY_TITLES ==
    [ LLM01 |-> "Prompt Injection",
      LLM02 |-> "Insecure Output Handling",
      LLM03 |-> "Training Data Poisoning",
      LLM04 |-> "Model Denial of Service",
      LLM05 |-> "Supply Chain Vulnerabilities",
      LLM06 |-> "Sensitive Information Disclosure",
      LLM07 |-> "Insecure Plugin Design",
      LLM08 |-> "Excessive Agency",
      LLM09 |-> "Overreliance",
      LLM10 |-> "Model Theft" ]

AGENTIC_CATEGORY_TITLES ==
    [ AA01 |-> "Prompt & Input Integrity",
      AA02 |-> "Tool Misuse & Escalation",
      AA03 |-> "External Service Abuse",
      AA04 |-> "Sensitive Data Exposure",
      AA05 |-> "Model or Data Exfiltration",
      AA06 |-> "Supply Chain & Dependency Risk",
      AA07 |-> "Secrets & Credential Handling",
      AA08 |-> "Observability & Audit Gaps",
      AA09 |-> "Safety & Policy Violations",
      AA10 |-> "Resilience & Availability" ]

\* SEVERITY_ORDER.get(word, 0)
SEVERITY_ORDER(word) ==
    CASE word = SevCritical -> 4
      [] word = SevHigh     -> 3
      [] word = SevMedium   -> 2
      [] word = SevModerate -> 2
      [] word = SevLow      -> 1
      [] OTHER              -> 0

\* VulnerabilityFinding(...), the categories not yet mapped
VulnerabilityFinding(location, package, version, ecosystem, vulnerability_id, severity, summary, aliases, fix_versions, references, source) ==
    [ detector                 |-> "vulnerability",
      name                     |-> vulnerability_id,
      location                 |-> location,
      metadata                 |-> [source |-> source],
      package                  |-> package,
      version                  |-> version,
      ecosystem                |-> ecosystem,
      vulnerability_id         |-> vulnerability_id,
      severity                 |-> severity,
      summary                  |-> summary,
      aliases                  |-> aliases,
      fix_versions             |-> fix_versions,
      references               |-> references,
      source                   |-> source,
      owasp_llm_categories     |-> <<>>,
      owasp_agentic_categories |-> <<>> ]

MappingRule(llm_codes, agentic_codes, keywords, package, ecosystem, id_prefixes, severity_at_least) ==
    [ llm_codes         |-> llm_codes,
      agentic_codes     |-> agentic_codes,
      keywords          |-> keywords,
      package           |-> package,
      ecosystem         |-> ecosystem,
      id_prefixes       |-> id_prefixes,
      severity_at_least |-> severity_at_least ]

\* keyword in haystacks, the keyword taken as written
KeywordInCased(keyword, haystacks) == Contains(haystacks, keyword)

\* MappingRule.matches: keyword.lower() in haystacks
KeywordIn(keyword, haystacks) == Contains(haystacks, Lower(keyword))

\* MappingRule.matches
MappingRule_matches(rule, finding) ==
    /\ TruthyText(rule.package) =>
          normalise_string(finding.package) = normalise_string(rule.package)
    /\ TruthyText(rule.ecosystem) =>
          normalise_string(finding.ecosystem) = normalise_string(rule.ecosystem)
    /\ (rule.id_prefixes # <<>>) =>
          LET identifier == Upper(OrEmpty(finding.vulnerability_id))
              aliases    == {Upper(alias) : alias \in Range(finding.aliases)}
          IN  \E prefix \in Range(rule.id_prefixes) :
                \/ StartsWith(identifier, Upper(prefix))
                \/ \E alias \in aliases : StartsWith(alias, Upper(prefix))
    /\ (rule.keywords # <<>>) =>
          LET parts     == << finding.summary, JoinSpace(finding.aliases) >>
              haystacks == Lower(JoinSpace(SelectSeq(parts, TruthyText)))
          IN  \E keyword \in Range(rule.keywords) : KeywordIn(keyword, haystacks)
    /\ TruthyText(rule.severity_at_least) =>
          LET required == SEVERITY_ORDER(Lower(rule.severity_at_least))
              actual   == SEVERITY_ORDER(Lower(OrEmpty(finding.severity)))
          IN  actual >= required

\* the category codes in the order of str comparison
CodesAscending ==
    << "AA01", "AA02", "AA03", "AA04", "AA05", "AA06", "AA07", "AA08", "AA09", "AA10",
       "LLM01", "LLM02", "LLM03", "LLM04", "LLM05", "LLM06", "LLM07", "LLM08", "LLM09",
       "LLM10", "LLM99" >>

\* sorted(codes) for a set of category codes
SortedCodes(codes) == SelectSeq(CodesAscending, LAMBDA code : code \in codes)

\* _format_category
_format_category(code, titles) ==
    code \o " - " \o (IF code \in DOMAIN titles THEN titles[code] ELSE "Unknown")

DEFAULT_RULES ==
    <<
       MappingRule(<<"LLM01">>, <<"AA01">>,
                   <<<<"p","r","o","m","p","t"," ","i","n","j","e","c","t","i","o","n">>,
                     <<"p","r","o","m","p","t","-","i","n","j","e","c","t","i","o","n">>>>,
                   NoneChars, NoneChars, <<>>, NoneChars),
       MappingRule(<<"LLM07">>, <<"AA02">>,
                   <<<<"r","e","m","o","t","e"," ","c","o","d","e"," ","e","x","e","c","u","t","i","o","n">>,
                     <<"c","o","m","m","a","n","d"," ","i","n","j","e","c","t","i","o","n">>,
                     <<"a","r","b","i","t","r","a","r","y"," ","c","o","m","m","a","n","d">>>>,
                   NoneChars, NoneChars, <<>>, NoneChars),
       MappingRule(<<"LLM06">>, <<"AA04">>,
                   <<<<"i","n","f","o","r","m","a","t","i","o","n"," ","d","i","s","c","l","o","s","u","r","e">>,
                     <<"s","e","n","s","i","t","i","v","e"," ","d","a","t","a">>,
                     <<"s","e","c","r","e","t"," ","e","x","p","o","s","u","r","e">>>>,
                   NoneChars, NoneChars, <<>>, NoneChars),
       MappingRule(<<"LLM04">>, <<"AA10">>,
                   <<<<"d","e","n","i","a","l"," ","o","f"," ","s","e","r","v","i","c","e">>,
                     <<"d","o","s">>,
                     <<"r","e","s","o","u","r","c","e"," ","e","x","h","a","u","s","t","i","o","n">>>>,
                   NoneChars, NoneChars, <<>>, NoneChars),
       MappingRule(<<"LLM07">>, <<"AA03">>,
                   <<<<"s","s","r","f">>,
                     <<"s","e","r","v","e","r","-","s","i","d","e"," ","r","e","q","u","e","s","t"," ","f","o","r","g","e","r","y">>,
                     <<"u","n","v","a","l","i","d","a","t","e","d"," ","r","e","q","u","e","s","t">>>>,
                   NoneChars, NoneChars, <<>>, NoneChars),
       MappingRule(<<"LLM05">>, <<"AA06">>,
                   <<<<"s","u","p","p","l","y"," ","c","h","a","i","n">>,
                     <<"d","e","p","e","n","d","e","n","c","y">>,
                     <<"p","a","c","k","a","g","e"," ","t","a","k","e","o","v","e","r">>>>,
                   NoneChars, NoneChars, <<>>, NoneChars),
       MappingRule(<<"LLM07">>, <<"AA07">>,
                   <<<<"c","r","e","d","e","n","t","i","a","l">>,
                     <<"s","e","c","r","e","t">>,
                     <<"t","o","k","e","n"," ","l","e","a","k">>>>,
                   NoneChars, NoneChars, <<>>, NoneChars)
    >>

\* the defaults of OWASPMapper.__init__
default_llm_codes     == <<"LLM05">>
default_agentic_codes == <<"AA06">>

\* OWASPMapper(rules=rules).apply(finding)
OWASPMapper_apply(rules, finding) ==
    LET matching      == {i \in DOMAIN rules : MappingRule_matches(rules[i], finding)}
        llm_found     == UNION {Range(rules[i].llm_codes) : i \in matching}
        agentic_found == UNION {Range(rules[i].agentic_codes) : i \in matching}
        llm_codes     == IF llm_found = {} THEN Range(default_llm_codes) ELSE llm_found
        agentic_codes == IF agentic_found = {} THEN Range(default_agentic_codes)
                         ELSE agentic_found
        llm_sorted     == SortedCodes(llm_codes)
        agentic_sorted == SortedCodes(agentic_codes)
    IN  [finding EXCEPT
            !.owasp_llm_categories =
                [i \in DOMAIN llm_sorted |->
                    _format_category(llm_sorted[i], LLM_CATEGORY_TITLES)],
            !.owasp_agentic_categories =
                [i \in DOMAIN agentic_sorted |->
                    _format_category(agentic_sorted[i], AGENTIC_CATEGORY_TITLES)]]

\* _pick_more_severe
_pick_more_severe(left, right) ==
    LET first      == Lower(OrEmpty(left))
        second     == Lower(OrEmpty(right))
        fallback   == IF first # <<>> THEN Upper(first)
                      ELSE IF second # <<>> THEN Upper(second)
                      ELSE NoneChars
        best_value == IF SEVERITY_ORDER(first) > 0
                         /\ SEVERITY_ORDER(first) >= SEVERITY_ORDER(second)
                      THEN Upper(first)
                      ELSE IF SEVERITY_ORDER(second) > 0 THEN Upper(second)
                      ELSE NoneChars
    IN  IF best_value # NoneChars THEN best_value ELSE fallback

\* {**left, **right}
DictMerge(left, right) ==
    [k \in DOMAIN left \cup DOMAIN right |-> IF k \in DOMAIN right THEN right[k] ELSE left[k]]

\* the first finding of a key kept as it is, the later ones dropped
_merge_keeping_first(existing, finding, rules) == existing

\* _merge_findings
_merge_findings(left, right, rules) ==
    OWASPMapper_apply(rules,
        [ detector                 |-> "vulnerability",
          name                     |-> left.name,
          location                 |-> OrElse(left.location, right.location),
          metadata                 |-> DictMerge(left.metadata, right.metadata),
          package                  |-> left.package,
          version                  |-> OrElse(left.version, right.version),
          ecosystem                |-> OrElse(left.ecosystem, right.ecosystem),
          vulnerability_id         |-> left.vulnerability_id,
          severity                 |-> _pick_more_severe(left.severity, right.severity),
          summary                  |-> OrElse(left.summary, right.summary),
          aliases                  |-> SortTexts(Range(left.aliases) \cup Range(right.aliases)),
          fix_versions             |-> SortTexts(Range(left.fix_versions)
                                                   \cup Range(right.fix_versions)),
          references               |-> SortTexts(Range(left.references)
                                                   \cup Range(right.references)),
          source                   |-> OrElse(left.source, right.source),
          owasp_llm_categories     |-> <<>>,
          owasp_agentic_categories |-> <<>> ])

\* the key of VulnerabilityMapper.merge
MergeKey(finding) == <<Lower(finding.package), Upper(finding.vulnerability_id)>>

\* VulnerabilityMapper.merge: the loop over the findings of all groups;
\* merged holds the values of the dict in insertion order
RECURSIVE MergeLoop(_, _, _)
MergeLoop(rest, merged, rules) ==
    IF rest = <<>> THEN merged
    ELSE LET finding == Head(rest)
             key     == MergeKey(finding)
             at      == {i \in DOMAIN merged : MergeKey(merged[i]) = key}
         IN  IF at = {}
             THEN MergeLoop(Tail(rest), Append(merged, finding), rules)
             ELSE LET i == CHOOSE i \in at : TRUE IN
                  MergeLoop(Tail(rest),
                            [merged EXCEPT ![i] = _merge_findings(merged[i], finding, rules)],
                            rules)

\* VulnerabilityMapper(owasp_mapper=OWASPMapper(rules=rules)).merge(*finding_groups)
VulnerabilityMapper_merge(finding_groups, rules) ==
    MergeLoop(Flatten(finding_groups), <<>>, rules)

----------------------------------------------------------------------------
(* SpecRoundTrip: RadarReport.to_dict, then RadarReport.from_dict *)

\* findings as detectors and callers construct them
RoundTripFindings ==
    { RadarFinding("TOOL-NOVERSION::search", "Tool 'search' is missing a pinned version",
                   SevMedium, "pin versions", <<"LLM02">>, <<"Agentic-Tooling">>, "search",
                   "Add an explicit version", "tool-inventory", [tool |-> "search"]),
      RadarFinding("CUSTOM::x", "custom finding", <<" ","H","i","g","h"," ">>,
                   "emitted as constructed", <<>>, <<>>, None, None, None, EmptyDict),
      RadarFinding("CUSTOM::y", "custom finding", NoneChars,
                   "no severity", <<"LLM05">>, <<>>, "y", None, "custom", EmptyDict),
      RadarFinding("CUSTOM::z", "custom finding", <<"s","e","v","e","r","e">>,
                   "unheard-of severity", <<>>, <<"AA06">>, None, "fix", "custom", EmptyDict) }

RoundTripProjects ==
    { ParsedFrom(Root(TRUE, TRUE, Loaded(m), {}), m, TRUE) :
        m \in {ManifestSample, ManifestRepeats, ManifestEmpty} }

RoundTripScenarios ==
    { <<>>,
      << [name |-> "prompt-injection", status |-> "failed", details |-> "Guardrail rejected prompt"],
         [name |-> "pii-leakage", status |-> "passed", details |-> None] >> }

\* RadarReport(project_name=..., mode=...) with every other field defaulted
MinimalReport ==
    [ project_name     |-> "bare",
      mode             |-> "scan",
      generated_at     |-> "2025-09-01T00:00:00Z",
      findings         |-> <<>>,
      parsed_project   |-> NoProject,
      summary          |-> EmptyDict,
      trace_ids        |-> <<>>,
      scenario_results |-> <<>>,
      metadata         |-> EmptyDict ]

RoundTripReports ==
    { Put(ReportBuilder_build(p, fs_, IF sc = <<>> THEN "scan" ELSE "test", <<"trace-1">>,
                              sc, [release |-> "2025.09"], snap),
          "generated_at", "2025-09-01T00:00:00Z") :
        p \in RoundTripProjects,
        fs_ \in BoundedSeq(RoundTripFindings, MaxFindings),
        sc \in RoundTripScenarios,
        snap \in BOOLEAN }
    \cup {MinimalReport}

RoundTripInit ==
    /\ fpc = "to_dict"
    /\ fin \in {[op |-> "round_trip", report |-> r] : r \in RoundTripReports}
    /\ fout = NoCall

\* payload = R.to_dict()
ToDict ==
    /\ fpc = "to_dict"
    /\ fout' = [payload |-> ReportToDict(fin.report)]
    /\ fpc' = "from_dict"
    /\ UNCHANGED <<buildVars, runVars, packVars, osVars, fin>>

\* RadarReport.from_dict(payload)
FromDict ==
    /\ fpc = "from_dict"
    /\ fout' = [payload |-> fout.payload, report |-> from_dict(fout.payload)]
    /\ fpc' = "returned"
    /\ UNCHANGED <<buildVars, runVars, packVars, osVars, fin>>

----------------------------------------------------------------------------
(* SpecDetect: one built-in detector run on a bounded project *)

ToolPool ==
    { [name |-> n, version |-> v, source |-> src, scope |-> None] :
        n \in {"search", "email"},
        v \in {None, "", "1.2.3"},
        src \in {NoneChars, SrcHttps, SrcInternal, <<"H","T","T","P",":","/","/","e","x">>} }

ServerPool ==
    { [name |-> n, endpoint |-> "https://inventory.example", capabilities |-> caps,
       auth_mode |-> a] :
        n \in {"inventory", "files"},
        caps \in {<<>>, <<"read">>},
        a \in {None, "anonymous", "none", "None", "ANONYMOUS", "token"} }

VulnerabilityPool ==
    { [id |-> "CVE-1", severity |-> sev] : sev \in DetectSeverities }
    \cup { [cve |-> "CVE-2", severity |-> sev, fix_version |-> "2.31.0"] :
             sev \in DetectSeverities }
    \cup { [id |-> "CVE-1", cve |-> "CVE-2", fix_version |-> "2.31.0"],
           [id |-> "CVE-3"],
           [severity |-> SevHigh, description |-> "no id given"] }

\* a ParsedProject holding the given tools, servers and dependencies
ProjectWith(tools, mcp_servers, dependencies) ==
    [ root         |-> "project",
      project_name |-> "project",
      agents       |-> <<>>,
      tools        |-> tools,
      mcp_servers  |-> mcp_servers,
      dependencies |-> dependencies,
      metadata     |-> EmptyDict ]

DetectInputs ==
    { [op |-> "tool-inventory", project |-> ProjectWith(ts, <<>>, <<>>)] :
        ts \in BoundedSeq(ToolPool, MaxItems) }
    \cup { [op |-> "mcp-server", project |-> ProjectWith(<<>>, ms, <<>>)] :
             ms \in BoundedSeq(ServerPool, MaxItems) }
    \cup { [op |-> "dependency-vulnerability",
            project |-> ProjectWith(<<>>, <<>>,
                           << [name |-> "requests", version |-> "2.0.0", license |-> None,
                               vulnerabilities |-> vs] >>)] :
             vs \in BoundedSeq(VulnerabilityPool, MaxItems) }
    \cup { [op |-> "dependency-vulnerability",
            project |-> ProjectWith(<<>>, <<>>,
                           << [name |-> "requests", version |-> "2.0.0", license |-> None,
                               vulnerabilities |-> <<v>>],
                              [name |-> "urllib3", version |-> None, license |-> None,
                               vulnerabilities |-> <<w>>] >>)] :
             v \in {[id |-> "CVE-1", severity |-> SevModerate]},
             w \in VulnerabilityPool }

DetectInit ==
    /\ fpc = "call"
    /\ fin \in DetectInputs
    /\ fout = NoCall

\* ToolInventoryDetector().run(project)
RunToolInventory ==
    /\ fpc = "call"
    /\ fin.op = "tool-inventory"
    /\ fout' = ToolInventoryDetector_run(fin.project)
    /\ fpc' = "returned"
    /\ UNCHANGED <<buildVars, runVars, packVars, osVars, fin>>

\* MCPDetector().run(project)
RunMCP ==
    /\ fpc = "call"
    /\ fin.op = "mcp-server"
    /\ fout' = MCPDetector_run(fin.project)
    /\ fpc' = "returned"
    /\ UNCHANGED <<buildVars, runVars, packVars, osVars, fin>>

\* VulnerabilityDetector().run(project)
RunVulnerability ==
    /\ fpc = "call"
    /\ fin.op = "dependency-vulnerability"
    /\ fout' = VulnerabilityDetector_run(fin.project)
    /\ fpc' = "returned"
    /\ UNCHANGED <<buildVars, runVars, packVars, osVars, fin>>

----------------------------------------------------------------------------
(* SpecParse: ProjectParser.parse on a bounded project root *)

ParseFiles ==
    { PyFile("a", <<"m","y","_","a","g","e","n","t">>),
      PyFile("b", <<"m","y","_","a","g","e","n","t">>),
      PyFile("a", <<"t","e","s","t","_","x">>),
      PyFile("a", <<"t","o","o","l","s">>) }

ParseManifests ==
    { NoManifest, Malformed, NonObject, Unreadable,
      Loaded(ManifestSample), Loaded(ManifestRepeats), Loaded(ManifestEmpty) }

ParseRoots ==
    { Root(shape[1], shape[2], m, files) :
        shape \in {<<FALSE, FALSE>>, <<TRUE, FALSE>>, <<TRUE, TRUE>>},
        m \in ParseManifests,
        files \in {fs_ \in SUBSET ParseFiles : Cardinality(fs_) <= MaxFiles} }

ParseInit ==
    /\ fpc = "call"
    /\ fin \in {[op |-> "parse", root |-> r] : r \in ParseRoots}
    /\ fout = NoCall

\* ProjectParser(manifest_path).parse(root)
ParseRoot ==
    /\ fpc = "call"
    /\ fin.op = "parse"
    /\ \E walk \in Orders(fin.root.py_files) :
          fout' = ProjectParser_parse(fin.root, walk)
    /\ fpc' = "returned"
    /\ UNCHANGED <<buildVars, runVars, packVars, osVars, fin>>

----------------------------------------------------------------------------
(* SpecMapper: OWASPMapper.apply and VulnerabilityMapper.merge on bounded inputs *)

RulePackage ==
    MappingRule(<<"LLM03">>, <<>>, <<>>, <<"r","e","q","u","e","s","t","s">>, NoneChars, <<>>, NoneChars)
RuleEcosystem ==
    MappingRule(<<"LLM10", "LLM02">>, <<"AA09">>, <<>>, NoneChars, <<" ","p","y","p","i">>, <<>>, NoneChars)
RuleIdPrefix ==
    MappingRule(<<>>, <<"AA08", "AA01">>, <<>>, NoneChars, NoneChars, <<<<"g","h","s","a","-">>>>, NoneChars)
RuleSeverity ==
    MappingRule(<<"LLM08">>, <<"AA05">>, <<>>, NoneChars, NoneChars, <<>>, <<"M","e","d","i","u","m">>)
RuleKeywords ==
    MappingRule(<<"LLM04">>, <<"AA10">>, <<<<"D","o","S">>, <<"c","o","d","e"," ","e","x","e","c","u","t","i","o","n">>>>, NoneChars, NoneChars, <<>>, NoneChars)
RuleAll ==
    MappingRule(<<"LLM99">>, <<"AA02">>, <<<<"r","e","m","o","t","e">>>>, <<"R","e","q","u","e","s","t","s">>, <<"P","y","P","I">>, <<<<"C","V","E","-">>, <<"o","s","v","-">>>>, <<"h","i","g","h">>)
RuleBare ==
    MappingRule(<<>>, <<>>, <<>>, NoneChars, NoneChars, <<>>, NoneChars)
RuleOddSeverity ==
    MappingRule(<<"LLM09">>, <<"AA03">>, <<>>, NoneChars, NoneChars, <<>>, <<"s","e","v","e","r","e">>)

\* the rules an OWASPMapper may be constructed with
RuleLists ==
    { DEFAULT_RULES,
      <<>>,
      <<RulePackage>>,
      <<RuleAll>>,
      <<RuleBare>>,
      <<RuleEcosystem, RuleIdPrefix>>,
      <<RuleSeverity, RuleKeywords>>,
      <<RuleOddSeverity, RuleBare>>,
      <<RuleKeywords, RuleEcosystem, RulePackage>>,
      <<RuleIdPrefix, RuleSeverity, RuleAll>> }

ApplyFindings ==
    { VulnerabilityFinding(NoneChars, package, <<"2",".","0",".","0">>, ecosystem, vulnerability_id,
                           severity, summary, aliases, <<>>, <<>>, <<"o","s","v">>) :
        package \in {<<"r","e","q","u","e","s","t","s">>, <<" ","R","e","q","u","e","s","t","s"," ">>},
        ecosystem \in {NoneChars, <<"P","y","P","I">>},
        vulnerability_id \in {<<"C","V","E","-","1">>, <<"g","h","s","a","-","2">>},
        severity \in {NoneChars, <<"H","I","G","H">>, <<"m","o","d","e","r","a","t","e">>, <<"l","o","w">>},
        summary \in {NoneChars, <<>>, <<"R","e","m","o","t","e"," ","c","o","d","e">>, <<"d","o","s"," ","i","n"," ","x">>,
                     <<"P","r","o","m","p","t","-","I","n","j","e","c","t","i","o","n"," ","v","i","a"," ","t","o","o","l">>},
        aliases \in {<<>>, <<<<"g","h","s","a","-","3">>>>, <<<<"e","x","e","c","u","t","i","o","n">>, <<"c","v","e","-","9">>>>} }

\* findings as from_osv and from_pip_audit hand them to merge
MergePool ==
    {
      OWASPMapper_apply(DEFAULT_RULES,
        VulnerabilityFinding(NoneChars, <<"r","e","q","u","e","s","t","s">>, <<"2",".","0",".","0">>, <<"P","y","P","I">>, <<"C","V","E","-","1">>, <<"l","o","w">>,
          NoneChars, <<<<"g","h","s","a","-","3">>>>, <<<<"2",".","3","1",".","0">>>>, <<>>, <<"o","s","v">>)),
      OWASPMapper_apply(DEFAULT_RULES,
        VulnerabilityFinding(<<"p","i","p","-","a","u","d","i","t">>, <<"R","e","q","u","e","s","t","s">>, <<"2",".","0",".","0">>, <<"P","y","P","I">>, <<"c","v","e","-","1">>, <<"H","I","G","H">>,
          <<"d","o","s"," ","i","n"," ","x">>, <<<<"c","v","e","-","9">>>>, <<<<"2",".","3","0",".","0">>>>, <<<<"o","s","v",".","d","e","v","/","x">>>>, <<"p","i","p","-","a","u","d","i","t">>)),
      OWASPMapper_apply(DEFAULT_RULES,
        VulnerabilityFinding(<<>>, <<"r","e","q","u","e","s","t","s">>, <<"2",".","0",".","0">>, <<"P","y","P","I">>, <<"C","V","E","-","1">>, <<"m","o","d","e","r","a","t","e">>,
          <<>>, <<>>, <<>>, <<>>, <<"o","s","v">>)),
      OWASPMapper_apply(DEFAULT_RULES,
        VulnerabilityFinding(<<"r","e","q",".","t","x","t">>, <<"r","e","q","u","e","s","t","s">>, <<"2",".","0",".","0">>, <<"P","y","P","I">>, <<"C","V","E","-","1">>, <<"M","E","D","I","U","M">>,
          <<"s","s","r","f">>, <<<<"a","-","1">>, <<"g","h","s","a","-","3">>>>, <<<<"2",".","3","1",".","0">>>>, <<<<"o","s","v",".","d","e","v","/","x">>, <<"n","v","d","/","1">>>>, <<"o","s","v">>)),
      OWASPMapper_apply(DEFAULT_RULES,
        VulnerabilityFinding(<<"r","e","q",".","t","x","t">>, <<"u","r","l","l","i","b","3">>, <<"2",".","0",".","0">>, NoneChars, <<"C","V","E","-","1">>, NoneChars,
          NoneChars, <<>>, <<>>, <<>>, <<"o","s","v">>)),
      OWASPMapper_apply(DEFAULT_RULES,
        VulnerabilityFinding(NoneChars, <<"u","r","l","l","i","b","3">>, <<"2",".","0",".","0">>, <<"P","y","P","I">>, <<"c","v","e","-","1">>, <<"i","n","f","o">>,
          <<"s","e","c","r","e","t">>, <<<<"c","v","e","-","9">>>>, <<>>, <<>>, <<"p","i","p","-","a","u","d","i","t">>)),
      OWASPMapper_apply(DEFAULT_RULES,
        VulnerabilityFinding(<<"r","e","q",".","t","x","t">>, <<"r","e","q","u","e","s","t","s">>, <<"2",".","0",".","0">>, <<"P","y","P","I">>, <<"g","h","s","a","-","2">>, <<"c","r","i","t","i","c","a","l">>,
          <<"R","e","m","o","t","e"," ","c","o","d","e">>, <<<<"e","x","e","c","u","t","i","o","n">>>>, <<<<"3",".","0">>>>, <<>>, <<"o","s","v">>)),
      OWASPMapper_apply(DEFAULT_RULES,
        VulnerabilityFinding(<<"l","o","c","k">>, <<"r","e","q","u","e","s","t","s">>, <<>>, <<"P","y","P","I">>, <<"C","V","E","-","1">>, <<>>,
          <<"c","r","e","d","e","n","t","i","a","l">>, <<>>, <<<<"2",".","2","9",".","0">>>>, <<>>, <<"p","i","p","-","a","u","d","i","t">>))
    }

\* the groups handed to merge: up to MaxMerged findings, split in two groups
MergeGroups ==
    UNION { { <<SubSeq(all, 1, k), SubSeq(all, k + 1, Len(all))>> : k \in 0..Len(all) } :
              all \in BoundedSeq(MergePool, MaxMerged) }

MapperInit ==
    /\ fpc = "call"
    /\ fin \in { [op |-> "apply", rules |-> rules, finding |-> finding] :
                    rules \in RuleLists, finding \in ApplyFindings }
               \cup { [op |-> "merge", rules |-> DEFAULT_RULES, groups |-> groups] :
                         groups \in MergeGroups }
    /\ fout = NoCall

\* OWASPMapper(rules=rules).apply(finding)
ApplyRules ==
    /\ fpc = "call"
    /\ fin.op = "apply"
    /\ fout' = [finding |-> OWASPMapper_apply(fin.rules, fin.finding)]
    /\ fpc' = "returned"
    /\ UNCHANGED <<buildVars, runVars, packVars, osVars, fin>>

\* VulnerabilityMapper().merge(*finding_groups)
MergeFindings ==
    /\ fpc = "call"
    /\ fin.op = "merge"
    /\ fout' = [findings |-> VulnerabilityMapper_merge(fin.groups, fin.rules)]
    /\ fpc' = "returned"
    /\ UNCHANGED <<buildVars, runVars, packVars, osVars, fin>>

----------------------------------------------------------------------------
(* detectors/vulnerabilities.py: the OSV payload *)

\* value or other, for texts taken from a dict: a missing key is None
GetOr(d, k, other) == IF TruthyText(Get(d, k, NoneChars)) THEN d[k] ELSE other

\* the text of a score up to its first "/": a number, given in tenths
ScoreText(tenths) == [number |-> TRUE, tenths |-> tenths]

\* a score whose text up to its first "/" is no number ("CVSS:3.1/AV:N")
ScoreVector == [number |-> FALSE]

\* _score_to_float: the number in tenths, or nothing
_score_to_float(score) == IF score.number THEN {score.tenths} ELSE {}

\* _severity_from_score, the score in tenths
_severity_from_score(score) ==
    IF score >= 90 THEN <<"C","R","I","T","I","C","A","L">>
    ELSE IF score >= 70 THEN <<"H","I","G","H">>
    ELSE IF score >= 40 THEN <<"M","E","D","I","U","M">>
    ELSE IF score > 0 THEN <<"L","O","W">>
    ELSE <<"U","N","K","N","O","W","N">>

\* _extract_source_path
_extract_source_path(source) ==
    IF "path" \in DOMAIN source /\ source.path # NoneChars THEN source.path
    ELSE IF "file" \in DOMAIN source /\ source.file # NoneChars THEN source.file
    ELSE IF "name" \in DOMAIN source /\ source.name # NoneChars THEN source.name
    ELSE NoneChars

\* _extract_osv_severity
_extract_osv_severity(vuln) ==
    LET entries     == Get(vuln, "severity", <<>>)
        severities  == UNION { _score_to_float(entries[i].score) : i \in DOMAIN entries }
        database_specific == Get(vuln, "database_specific", EmptyDict)
    IN  IF severities # {}
        THEN _severity_from_score(CHOOSE m \in severities : \A n \in severities : n <= m)
        ELSE IF Get(database_specific, "severity", NoneChars) # NoneChars
        THEN Upper(database_specific.severity)
        ELSE NoneChars

\* _extract_osv_fix_versions
_extract_osv_fix_versions(vuln) ==
    LET database_specific == Get(vuln, "database_specific", EmptyDict)
        affected          == Get(vuln, "affected", <<>>)
    IN  SortTexts(Range(Get(vuln, "fix_versions", <<>>))
                  \cup Range(Get(vuln, "fixed_versions", <<>>))
                  \cup Range(Get(database_specific, "fix_versions", <<>>))
                  \cup Range(Get(database_specific, "fixed_versions", <<>>))
                  \cup UNION { Range(affected[i].fixed) : i \in DOMAIN affected })

\* vuln.get("id") or aliases[0], whatever aliases there are
VulnIdOrFirstAlias(vuln, aliases, package_name) ==
    IF TruthyText(Get(vuln, "id", NoneChars)) THEN vuln.id
    ELSE IF aliases # <<>> THEN aliases[1]
    ELSE package_name

\* from_osv: vuln.get("id") or aliases[0] if aliases else package_name
VulnId(vuln, aliases, package_name) ==
    IF aliases # <<>>
    THEN (IF TruthyText(Get(vuln, "id", NoneChars)) THEN vuln.id ELSE aliases[1])
    ELSE package_name

\* from_osv: the findings of one vulnerability of one package, one per version
OsvVulnFindings(rules, source_path, package, vuln) ==
    LET pkg_meta     == Get(package, "package", EmptyDict)
        package_name == GetOr(pkg_meta, "name", <<"u","n","k","n","o","w","n">>)
        ecosystem    == Get(pkg_meta, "ecosystem", NoneChars)
        versions     == IF Get(package, "versions", <<>>) # <<>> THEN package.versions
                        ELSE <<<<"u","n","k","n","o","w","n">>>>
        severity     == _extract_osv_severity(vuln)
        summary      == GetOr(vuln, "summary", Get(vuln, "details", NoneChars))
        aliases      == Get(vuln, "aliases", <<>>)
        references   == Get(vuln, "references", <<>>)
        fix_versions == _extract_osv_fix_versions(vuln)
        vuln_id      == VulnId(vuln, aliases, package_name)
    IN  [i \in DOMAIN versions |->
            OWASPMapper_apply(rules,
                [ VulnerabilityFinding(source_path, package_name, versions[i], ecosystem,
                                       vuln_id, severity, summary, aliases, fix_versions,
                                       references, <<"o","s","v">>)
                  EXCEPT !.metadata = [source |-> <<"o","s","v">>, path |-> source_path] ])]

\* VulnerabilityMapper.from_osv
from_osv(payload, rules) ==
    LET results == Get(payload, "results", <<>>) IN
    Flatten([r \in DOMAIN results |->
        LET source_path == _extract_source_path(Get(results[r], "source", EmptyDict))
            packages    == Get(results[r], "packages", <<>>)
        IN  Flatten([p \in DOMAIN packages |->
                LET vulnerabilities == Get(packages[p], "vulnerabilities", <<>>) IN
                Flatten([v \in DOMAIN vulnerabilities |->
                    OsvVulnFindings(rules, source_path, packages[p], vulnerabilities[v])])])])

----------------------------------------------------------------------------
(* SpecOsv: VulnerabilityMapper.from_osv on a bounded payload, then merge *)

OsvVulnerabilities ==
    { [id |-> <<"G","H","S","A","-","1">>, summary |-> <<"d","o","s"," ","i","n"," ","x">>],
      [id |-> <<"G","H","S","A","-","2">>, details |-> <<"s","s","r","f">>,
       severity |-> << [score |-> ScoreText(98)], [score |-> ScoreVector] >>,
       fixed_versions |-> <<<<"2",".","3","1",".","0">>>>],
      [id |-> <<"G","H","S","A","-","1">>, aliases |-> <<<<"c","v","e","-","9">>>>,
       severity |-> << [score |-> ScoreText(75)] >>],
      [id |-> <<"g","h","s","a","-","3">>, aliases |-> <<<<"c","v","e","-","9">>, <<"c","v","e","-","8">>>>,
       database_specific |-> [severity |-> <<"m","o","d","e","r","a","t","e">>, fix_versions |-> <<<<"3",".","0">>>>],
       affected |-> << [fixed |-> <<<<"2",".","9">>>>] >>],
      [aliases |-> <<<<"c","v","e","-","7">>>>, summary |-> <<"s","e","c","r","e","t">>,
       severity |-> << [score |-> ScoreText(0)] >>],
      [summary |-> <<"c","r","e","d","e","n","t","i","a","l">>] }

OsvVersions == { <<>>, <<<<"1",".","0">>>>, <<<<"1",".","0">>, <<"2",".","0">>>> }

OsvPackage(name, versions, vulnerabilities) ==
    [ package         |-> [name |-> name, ecosystem |-> <<"P","y","P","I">>],
      versions        |-> versions,
      vulnerabilities |-> vulnerabilities ]

OsvPayloads ==
    { [results |-> << [source |-> [path |-> <<"r","e","q",".","t","x","t">>],
                       packages |-> << OsvPackage(<<"r","e","q","u","e","s","t","s">>, versions, vs) >>] >>] :
        versions \in OsvVersions, vs \in BoundedSeq(OsvVulnerabilities, MaxItems) }
    \cup
    { [results |-> << [source |-> [name |-> <<"l","o","c","k">>],
                       packages |-> << OsvPackage(<<"r","e","q","u","e","s","t","s">>, <<<<"1",".","0">>>>, <<v>>),
                                       OsvPackage(<<"u","r","l","l","i","b","3">>, <<>>, <<w>>) >>],
                      [packages |-> << [vulnerabilities |-> <<w>>] >>] >>] :
        v \in OsvVulnerabilities, w \in OsvVulnerabilities }
    \cup { EmptyDict }

OsvInit ==
    /\ fpc = "call"
    /\ fin \in { [op |-> "from_osv", rules |-> DEFAULT_RULES, payload |-> payload] :
                    payload \in OsvPayloads }
    /\ fout = NoCall

\* VulnerabilityMapper().from_osv(payload)
FromOsv ==
    /\ fpc = "call"
    /\ fin.op = "from_osv"
    /\ fout' = [findings |-> from_osv(fin.payload, fin.rules)]
    /\ fpc' = "parsed"
    /\ UNCHANGED <<buildVars, runVars, packVars, osVars, fin>>

\* VulnerabilityMapper().merge(findings) on what from_osv returned
MergeOsv ==
    /\ fpc = "parsed"
    /\ fin.op = "from_osv"
    /\ fout' = [findings |-> fout.findings,
                merged   |-> VulnerabilityMapper_merge(<<fout.findings>>, fin.rules)]
    /\ fpc' = "returned"
    /\ UNCHANGED <<buildVars, runVars, packVars, osVars, fin>>

----------------------------------------------------------------------------
(* detectors/mcp.py: the walk over a loaded configuration; SpecWalk *)

\* the dict and list objects of a loaded configuration, by identity
WalkNodes == {1, 2, 3}

WalkRoot == 1

\* values: a dict or list object, a string, anything else (a number, null)
Ref(n)     == [kind |-> "ref", to |-> n]
Str(text)  == [kind |-> "str", text |-> text]
OtherValue == [kind |-> "other"]

Item(key, value) == [key |-> key, value |-> value]
DictNode(items)  == [kind |-> "dict", items |-> items]
ListNode(values) == [kind |-> "list", items |-> values]

KeyMcp   == <<"m", "c", "p">>
KeyMcpS  == <<"M", "c", "p", "S">>
KeyUrl   == <<"U", "r", "l">>
KeyNext  == <<"n", "e", "x", "t">>
KeyName  == <<"n", "a", "m", "e">>
KeyId    == <<"i", "d">>
KeyTools == <<"T", "o", "o", "l", "s">>

_ENDPOINT_KEYS ==
    { <<"u", "r", "i">>, <<"u", "r", "l">>,
      <<"e", "n", "d", "p", "o", "i", "n", "t">>,
      <<"s", "e", "r", "v", "e", "r">>,
      <<"s", "e", "r", "v", "e", "r", "_", "u", "r", "l">>,
      <<"b", "a", "s", "e", "_", "u", "r", "l">>,
      <<"a", "d", "d", "r", "e", "s", "s">> }

_CAPABILITY_KEYS ==
    { <<"c", "a", "p", "a", "b", "i", "l", "i", "t", "i", "e", "s">>,
      <<"t", "o", "o", "l", "s">>,
      <<"p", "e", "r", "m", "i", "s", "s", "i", "o", "n", "s">> }

\* ".".join(trail)
RECURSIVE JoinDot(_)
JoinDot(parts) ==
    IF parts = <<>> THEN <<>>
    ELSE IF Len(parts) = 1 THEN parts[1]
    ELSE parts[1] \o <<".">> \o JoinDot(Tail(parts))

\* str(index) of a list position
IndexText(i) == << <<"0", "1", "2">>[i] >>

\* node.get(key): the value as text when it is a non-empty string
GetText(node, key) ==
    LET hits == {i \in DOMAIN node.items : node.items[i].key = key} IN
    IF hits = {} THEN NoneChars
    ELSE LET v == node.items[CHOOSE i \in hits : TRUE].value IN
         IF v.kind = "str" THEN v.text ELSE NoneChars

\* bool(value)
ValueTruthy(data, v) ==
    CASE v.kind = "str" -> v.text # <<>>
      [] v.kind = "ref" -> data[v.to].items # <<>>
      [] OTHER          -> FALSE

\* the entry _find_mcp_in_mapping makes of a dict, as a sequence of none or
\* one; node is the identity of the dict the entry was made of
WalkEntry(data, n, trail) ==
    LET node       == data[n]
        is_mcp     == \E i \in DOMAIN node.items : Contains(Lower(node.items[i].key), KeyMcp)
        endpointAt == {i \in DOMAIN node.items : Lower(node.items[i].key) \in _ENDPOINT_KEYS}
        endpoint   == IF endpointAt = {} THEN OtherValue
                      ELSE node.items[CHOOSE i \in endpointAt : \A j \in endpointAt : i <= j].value
    IN  IF node.kind = "dict" /\ (is_mcp \/ ValueTruthy(data, endpoint))
        THEN << [ name     |-> IF trail # <<>>
                               THEN OrElse(GetText(node, KeyName),
                                           OrElse(GetText(node, KeyId), JoinDot(trail)))
                               ELSE KeyMcp,
                  endpoint |-> IF endpoint.kind = "str" THEN endpoint.text ELSE NoneChars,
                  caps     |-> { node.items[i].key : i \in
                                   { j \in DOMAIN node.items :
                                       /\ Lower(node.items[j].key) \in _CAPABILITY_KEYS
                                       /\ node.items[j].value.kind = "ref"
                                       /\ data[node.items[j].value.to].kind = "list" } },
                  node     |-> n ] >>
        ELSE <<>>

\* trail + [str(key)] or trail + [str(index)]
TrailTo(data, frame) ==
    Append(frame.trail,
           IF data[frame.node].kind = "dict" THEN data[frame.node].items[frame.next].key
           ELSE IndexText(frame.next))

\* the value the frame's loop is at
ValueAt(data, frame) ==
    IF data[frame.node].kind = "dict" THEN data[frame.node].items[frame.next].value
    ELSE data[frame.node].items[frame.next]

\* the dict and list objects a depth-first walk from n meets, d levels deep
RECURSIVE VisitList(_, _, _)
VisitList(data, n, d) ==
    IF d = 0 THEN <<>>
    ELSE LET node == data[n]
             at   == [i \in DOMAIN node.items |->
                        IF node.kind = "dict" THEN node.items[i].value ELSE node.items[i]]
         IN  <<n>> \o Flatten([i \in DOMAIN at |->
                                 IF at[i].kind = "ref" THEN VisitList(data, at[i].to, d - 1)
                                 ELSE <<>>])

\* no object met twice: what json.loads returns; yaml anchors give the rest
IsTree(data) ==
    LET met == VisitList(data, WalkRoot, Cardinality(WalkNodes) + 1) IN
    \A i, j \in DOMAIN met : i # j => met[i] # met[j]

UrlText == <<"h", "t", "t", "p", ":", "/", "/", "x">>

NodeShapes ==
    { DictNode(<<Item(k, Ref(a))>>) : k \in {KeyMcpS, KeyNext}, a \in WalkNodes }
    \cup { DictNode(<<Item(KeyName, Str(<<"s", "r", "v">>)), Item(KeyUrl, Str(UrlText)),
                      Item(KeyNext, Ref(a))>>) : a \in WalkNodes }
    \cup { DictNode(<<Item(KeyUrl, Str(UrlText)), Item(KeyTools, Ref(a))>>) : a \in WalkNodes }
    \cup { DictNode(<<Item(KeyId, Str(<<"s", "1">>)), Item(KeyMcp, OtherValue)>>) }
    \cup { ListNode(<<Ref(a), Ref(b)>>) : a \in WalkNodes, b \in {2, 3} }
    \cup { ListNode(<<>>) }

ConfigData == [WalkNodes -> NodeShapes]

\* a configuration file that loads: from .json a tree, from .yaml any graph
WalkInit ==
    /\ fpc = "call"
    /\ fin \in { [op |-> "walk", suffix |-> sfx, data |-> data] :
                    sfx \in {".json", ".yaml"}, data \in ConfigData }
    /\ fin.suffix = ".json" => IsTree(fin.data)
    /\ fout = NoCall

Frame(n, trail) == [node |-> n, next |-> 1, trail |-> trail]

\* _scan_config calls _find_mcp_in_mapping(data)
WalkCall ==
    /\ fpc = "call"
    /\ fin.op = "walk"
    /\ fout' = [stack    |-> <<Frame(WalkRoot, <<>>)>>,
                findings |-> WalkEntry(fin.data, WalkRoot, <<>>),
                exc      |-> None]
    /\ fpc' = "walking"
    /\ UNCHANGED <<buildVars, runVars, packVars, osVars, fin>>

\* one turn of the loop over node.items() or enumerate(node): the recursive
\* call on the value; the interpreter raises when the calls are too deep
WalkDescend ==
    /\ fpc = "walking"
    /\ LET top   == fout.stack[Len(fout.stack)]
           value == ValueAt(fin.data, top)
           stepped == [fout.stack EXCEPT ![Len(fout.stack)].next = top.next + 1]
       IN  /\ top.next <= Len(fin.data[top.node].items)
           /\ IF Len(fout.stack) >= RecursionLimit
              THEN /\ fout' = [fout EXCEPT !.exc = "RecursionError"]
                   /\ fpc' = "raised"
              ELSE IF value.kind = "ref"
              THEN /\ fout' = [fout EXCEPT
                                 !.stack = Append(stepped, Frame(value.to, TrailTo(fin.data, top))),
                                 !.findings = fout.findings \o
                                     WalkEntry(fin.data, value.to, TrailTo(fin.data, top))]
                   /\ fpc' = "walking"
              ELSE /\ fout' = [fout EXCEPT !.stack = stepped]
                   /\ fpc' = "walking"
    /\ UNCHANGED <<buildVars, runVars, packVars, osVars, fin>>

\* the loop of a call is over: return findings to the caller
WalkReturn ==
    /\ fpc = "walking"
    /\ LET top == fout.stack[Len(fout.stack)] IN
           /\ top.next > Len(fin.data[top.node].items)
           /\ fout' = [fout EXCEPT !.stack = SubSeq(fout.stack, 1, Len(fout.stack) - 1)]
           /\ fpc' = IF Len(fout.stack) = 1 THEN "walked" ELSE "walking"
    /\ UNCHANGED <<buildVars, runVars, packVars, osVars, fin>>

\* _scan_config: one MCPServerFinding per entry
ScanConfig ==
    /\ fpc = "walked"
    /\ fout' = [fout EXCEPT !.findings =
                  [i \in DOMAIN fout.findings |->
                     [ detector |-> "mcp",
                       name     |-> OrElse(fout.findings[i].name, <<"m", "c", "p", "_", "s", "e", "r", "v", "e", "r">>),
                       endpoint |-> fout.findings[i].endpoint,
                       location |-> fin.suffix,
                       metadata |-> fout.findings[i].caps,
                       node     |-> fout.findings[i].node ]]]
    /\ fpc' = "returned"
    /\ UNCHANGED <<buildVars, runVars, packVars, osVars, fin>>

----------------------------------------------------------------------------
(* object_store.py; SpecStore: callers of one LocalObjectStore and a reader *)

Callers == {1, 2}

NoRead == [none |-> TRUE]

\* a path handed to put_file as source
SourceFile(path, name, exists, content) ==
    [path |-> path, name |-> name, exists |-> exists, content |-> content]

\* the arguments of the puts
PutArgs ==
    { [op |-> "put_file", source |-> src, destination_name |-> n] :
        src \in { SourceFile("w/report.json", "report.json", TRUE, "report A"),
                  SourceFile("d2/report.json", "report.json", TRUE, "report B") },
        n \in {None, "x.json"} }
    \cup { [op |-> "put_file", destination_name |-> None,
            source |-> SourceFile("w/missing.json", "missing.json", FALSE, "")] }
    \cup { [op |-> "put_json", payload |-> [kind |-> "evidence"], destination_name |-> n] :
             n \in {None, "x.json"} }

\* uuid.uuid4().hex + ".json": a name no earlier call has drawn
UuidNames == <<"3f2a.json", "9c1d.json", "77be.json", "e0a4.json", "b58c.json">>

\* what a put has to write: the source's bytes, or the payload as JSON
PutContent(args) ==
    IF args.op = "put_file" THEN TextFile(args.source.content)
    ELSE [json |-> args.payload]

\* every put_json draws a uuid name, named or not
NeedsUuidAlways(args) == args.op = "put_json"

\* put_json: destination_name is empty or None, so a uuid name is drawn
NeedsUuid(args) == args.op = "put_json" /\ ~Truthy(args.destination_name)

IdleCaller == [pc |-> "idle", args |-> NoCall, dest |-> None, overlap |-> FALSE]

\* a put that returned or raised, with the store as it was then
PutRecord(caller, args, exc, dest, after) ==
    [caller |-> caller, args |-> args, raised |-> exc, name |-> dest, after |-> after]

\* no store is in use
StoreIdle ==
    /\ sfiles = EmptyDict
    /\ sproc = <<>>
    /\ shist = <<>>
    /\ sread = NoRead
    /\ suuid = 0

\* LocalObjectStore(root): the directory exists and is empty
StoreInit ==
    /\ sfiles = EmptyDict
    /\ sproc = [p \in Callers |-> IdleCaller]
    /\ shist = <<>>
    /\ sread = NoRead
    /\ suuid = 0

\* the puts begun so far
PutsBegun == Len(shist) + Cardinality({p \in Callers : sproc[p].pc # "idle"})

\* a caller calls store.put_file(...) or store.put_json(...)
StoreCall ==
    /\ PutsBegun < MaxPuts
    /\ \E p \in Callers, args \in PutArgs :
          /\ sproc[p].pc = "idle"
          /\ sproc' = [sproc EXCEPT ![p] = [IdleCaller EXCEPT !.pc = "name", !.args = args]]
    /\ UNCHANGED <<buildVars, runVars, packVars, fnVars, sfiles, shist, sread, suuid>>

\* put_file: the source must exist; both: destination_name or the default
\* name, the source's own name or a new uuid
StoreName ==
    \E p \in Callers :
        LET args == sproc[p].args IN
        /\ sproc[p].pc = "name"
        /\ IF args.op = "put_file" /\ ~args.source.exists
           THEN /\ shist' = Append(shist, PutRecord(p, args, "ObjectStoreError", None, sfiles))
                /\ sproc' = [sproc EXCEPT ![p] = IdleCaller]
                /\ UNCHANGED suuid
           ELSE /\ sproc' = [sproc EXCEPT ![p].pc = "open",
                                          ![p].dest =
                                              IF NeedsUuid(args) THEN UuidNames[suuid + 1]
                                              ELSE IF Truthy(args.destination_name)
                                              THEN args.destination_name
                                              ELSE args.source.name]
                /\ suuid' = IF NeedsUuid(args) THEN suuid + 1 ELSE suuid
                /\ UNCHANGED shist
        /\ UNCHANGED <<buildVars, runVars, packVars, fnVars, sfiles, sread>>

\* shutil.copy2 / destination.open("w"): the destination itself is opened
\* for writing, which empties it; a caller already writing it is written over
StoreOpen ==
    \E p \in Callers :
        LET writing == {q \in Callers \ {p} :
                           sproc[q].pc = "write" /\ sproc[q].dest = sproc[p].dest} IN
        /\ sproc[p].pc = "open"
        /\ sfiles' = Put(sfiles, sproc[p].dest, FilePartial)
        /\ sproc' = [q \in Callers |->
                        IF q = p
                        THEN [sproc[p] EXCEPT !.pc = "write", !.overlap = (writing # {})]
                        ELSE IF q \in writing THEN [sproc[q] EXCEPT !.overlap = TRUE]
                        ELSE sproc[q]]
        /\ UNCHANGED <<buildVars, runVars, packVars, fnVars, shist, sread, suuid>>

\* the bytes are written and the file is closed; two callers that wrote the
\* one file at a time leave the bytes of either or a mix of both
StoreWrite ==
    \E p \in Callers :
        /\ sproc[p].pc = "write"
        /\ \E written \in {FileComplete(PutContent(sproc[p].args))}
                          \cup (IF sproc[p].overlap THEN {FilePartial} ELSE {}) :
              sfiles' = Put(sfiles, sproc[p].dest, written)
        /\ sproc' = [sproc EXCEPT ![p].pc = "return"]
        /\ UNCHANGED <<buildVars, runVars, packVars, fnVars, shist, sread, suuid>>

\* return destination
StoreReturn ==
    \E p \in Callers :
        /\ sproc[p].pc = "return"
        /\ shist' = Append(shist, PutRecord(p, sproc[p].args, None, sproc[p].dest, sfiles))
        /\ sproc' = [sproc EXCEPT ![p] = IdleCaller]
        /\ UNCHANGED <<buildVars, runVars, packVars, fnVars, sfiles, sread, suuid>>

\* another process opens a destination of the store and reads it
StoreRead ==
    /\ \E name \in DOMAIN sfiles :
          sread' = [name |-> name, file |-> sfiles[name]]
    /\ UNCHANGED <<buildVars, runVars, packVars, fnVars, sfiles, sproc, shist, suuid>>

\* no function call is being followed
FnIdle ==
    /\ fpc = "idle"
    /\ fin = NoCall
    /\ fout = NoCall

----------------------------------------------------------------------------
(* Specifications *)

InitBuild == BuildInit /\ RunIdle /\ PackIdle /\ FnIdle /\ StoreIdle
NextBuild == Build
SpecBuild == InitBuild /\ [][NextBuild]_vars

InitRun == RunInit /\ BuildIdle /\ PackIdle /\ FnIdle /\ StoreIdle
NextRun ==
    \/ Parse
    \/ RunDetector
    \/ DetectorsDone
    \/ RunScenarios
    \/ BuildReport
    \/ OpenOutput
    \/ DumpReport
    \/ CreateStore
    \/ PutFile
    \/ Return
    \/ Rescan
SpecRun == InitRun /\ [][NextRun]_vars

InitPack == PackInit /\ BuildIdle /\ RunIdle /\ FnIdle /\ StoreIdle
NextPack ==
    \/ PackValidate
    \/ PackPrepare
    \/ PackOpen
    \/ PackWriteFindings
    \/ PackFindingsDone
    \/ PackLogs
    \/ PackWriteMetadata
    \/ PackClose
    \/ PackStore
    \/ PackReturn
    \/ Rebuild
SpecPack == InitPack /\ [][NextPack]_vars

InitDetect == DetectInit /\ BuildIdle /\ RunIdle /\ PackIdle /\ StoreIdle
NextDetect ==
    \/ RunToolInventory
    \/ RunMCP
    \/ RunVulnerability
SpecDetect == InitDetect /\ [][NextDetect]_vars

InitParse == ParseInit /\ BuildIdle /\ RunIdle /\ PackIdle /\ StoreIdle
NextParse == ParseRoot
SpecParse == InitParse /\ [][NextParse]_vars

InitMapper == MapperInit /\ BuildIdle /\ RunIdle /\ PackIdle /\ StoreIdle
NextMapper ==
    \/ ApplyRules
    \/ MergeFindings
SpecMapper == InitMapper /\ [][NextMapper]_vars

InitOsv == OsvInit /\ BuildIdle /\ RunIdle /\ PackIdle /\ StoreIdle
NextOsv ==
    \/ FromOsv
    \/ MergeOsv
SpecOsv == InitOsv /\ [][NextOsv]_vars

InitWalk == WalkInit /\ BuildIdle /\ RunIdle /\ PackIdle /\ StoreIdle
NextWalk ==
    \/ WalkCall
    \/ WalkDescend
    \/ WalkReturn
    \/ ScanConfig
SpecWalk == InitWalk /\ [][NextWalk]_vars

InitStore == StoreInit /\ BuildIdle /\ RunIdle /\ PackIdle /\ FnIdle
NextStore ==
    \/ StoreCall
    \/ StoreName
    \/ StoreOpen
    \/ StoreWrite
    \/ StoreReturn
    \/ StoreRead
SpecStore == InitStore /\ [][NextStore]_vars

InitRoundTrip == RoundTripInit /\ BuildIdle /\ RunIdle /\ PackIdle /\ StoreIdle
NextRoundTrip ==
    \/ ToDict
    \/ FromDict
SpecRoundTrip == InitRoundTrip /\ [][NextRoundTrip]_vars

----------------------------------------------------------------------------
(* Claims about the report builder (SpecBuild) *)

\* C1: in every report ReportBuilder.build returns, summary.findings.total
\* equals the number of findings of the report and equals the sum of the
\* counts stored under the six canonical severities, whatever severity
\* strings the findings carry.
C1_TotalIsCountAndSum ==
    bpc = "built" =>
        LET counts == bReport.summary.findings IN
        /\ counts[KeyTotal] = Len(bReport.findings)
        /\ counts[KeyTotal] = SumOver(counts, CanonicalSeverities)

C1_Witness ==
    /\ bpc = "built"
    /\ Len(bReport.findings) >= 2
    /\ \E i \in DOMAIN bReport.findings :
          bReport.findings[i].severity \notin CanonicalSeverities
    /\ bReport.summary.findings[SevUnknown] >= 1
    /\ bReport.summary.findings[SevHigh] >= 1

----------------------------------------------------------------------------
(* Claims about run_scan / run_test (SpecRun) *)

\* C2: in every report of run_scan / run_test the finding identifiers are
\* pairwise distinct (findings that would share an identifier are collapsed
\* to one).
C2_IdentifiersDistinct ==
    report # NoReport =>
        \A i, j \in DOMAIN report.findings :
            i # j => report.findings[i].identifier # report.findings[j].identifier

\* C3: a detector that raises in run(project) does not abort the run: the
\* failure becomes a finding DETECTOR-ERROR::<name> of severity unknown, the
\* other detectors' findings are in the report, and the failing detector is
\* still named in metadata.detectors.
C3_DetectorFailureRecovered ==
    project # NoProject =>
        LET detectors == _resolve_detectors(config.detectors)
            failing   == {i \in DOMAIN detectors :
                            Detector_run(detectors[i], project).exc # None}
        IN  /\ ~(pc = "failed" /\ raised.at = "detect")
            /\ report # NoReport =>
                 /\ \A i \in failing : \E k \in DOMAIN report.findings :
                       /\ report.findings[k].identifier =
                             "DETECTOR-ERROR::" \o DetectorName(detectors[i])
                       /\ report.findings[k].severity = SevUnknown
                 /\ \A i \in DOMAIN detectors \ failing :
                       Range(Detector_run(detectors[i], project).findings)
                          \subseteq Range(report.findings)
                 /\ \A i \in DOMAIN detectors :
                       DetectorName(detectors[i]) \in Range(report.metadata["detectors"])

\* C4: report.findings is the concatenation, in the order of the resolved
\* detector list, of each detector's output in its own order; in run_test
\* the scenario findings follow, in the order of the requested scenarios.
C4_FindingsInDetectorOrder ==
    report # NoReport =>
        LET detectors    == _resolve_detectors(config.detectors)
            detectorPart == Flatten([i \in DOMAIN detectors |->
                                Detector_run(detectors[i], project).findings])
            names        == ScenarioNamesOf(config)
            scenarioPart == IF config.test
                            THEN Flatten([i \in DOMAIN names |->
                                    ScenarioStep(project, names[i]).findings])
                            ELSE <<>>
        IN  report.findings = detectorPart \o scenarioPart

C4_Witness ==
    /\ pc = "done"
    /\ config.test
    /\ config.detectors.given
    /\ Len(config.detectors.value) = 2
    /\ config.detectors.value[1].kind # config.detectors.value[2].kind
    /\ Len(findings) >= 3
    /\ Len(scenario_out.findings) >= 1
    /\ Len(report.findings) = Len(findings) + Len(scenario_out.findings)

\* C5: when run_scan / run_test fails before or while the report is written
\* (parse, detectors, write_json), no partially written report is left at
\* output_path and nothing has been put in the object store.
C5_NoPartialReportOnFailure ==
    (pc = "failed" /\ raised.at \in {"parse", "detect", "scenarios", "build", "open", "dump"}) =>
        /\ outFile.state # "partial"
        /\ store = Absent

\* C6: the report is completely written at output_path before any
\* object-store operation starts; when creating the store or put_file fails
\* the error reaches the caller (no result is returned) and the report at
\* output_path is complete and unchanged.
C6_PrimaryWriteThenReplicate ==
    /\ (pc \in {"store", "put"} \/ (runNo = 1 /\ store # Absent) \/ raised.at \in {"store", "put"}) =>
          outFile = FileComplete(ReportToDict(report))
    /\ pc = "failed" => (raised # NoError /\ result = NoResult)

C6_Witness ==
    /\ pc = "failed"
    /\ raised.at = "put"
    /\ raised.type = "OSError"
    /\ store # Absent
    /\ outFile.state = "complete"

----------------------------------------------------------------------------
(* Claims about the evidence packager (SpecPack) *)

EntryNames(zip) == [i \in DOMAIN zip |-> zip[i].name]

\* C7: when build fails (no findings, a missing findings file, a logs_path
\* that is neither a directory nor a file), no zip file is left at
\* output_path by that call.
C7_NoZipLeftOnFailure ==
    ppc = "failed" => (output_path = NoPath \/ output_path \notin DOMAIN fs)

\* C8: after a successful build the zip entries are findings/<basename> for
\* each findings path in caller order, then the logs/ entries in sorted
\* relative-path order (or the single logs/<basename>), then metadata.json;
\* metadata.findings and metadata.logs list exactly those names in order.
C8_EntriesInStableOrder ==
    ppc = "done" =>
        LET names     == EntryNames(fs[output_path].zip)
            paths     == pargs.findings_paths
            logs_path == pargs.logs_path
            under     == {p \in DOMAIN fs : IsUnder(p, logs_path)}
        IN  /\ names = metadata.findings \o metadata.logs \o <<nMetadataJson>>
            /\ metadata.findings = [i \in DOMAIN paths |-> FindingsPfx \o PathName(paths[i])]
            /\ logs_path = NoPath => metadata.logs = <<>>
            /\ (logs_path # NoPath /\ logs_path \in DOMAIN fs) =>
                  metadata.logs = <<LogsPfx \o PathName(logs_path)>>
            /\ (logs_path # NoPath /\ logs_path \in dirs) =>
                  \E o \in Orders(under) :
                     /\ \A i, j \in DOMAIN o :
                           i < j => PathLess(RelativeTo(o[i], logs_path),
                                             RelativeTo(o[j], logs_path))
                     /\ metadata.logs = [i \in DOMAIN o |->
                           LogsPfx \o PathStr(RelativeTo(o[i], logs_path))]

\* seed scenario S6: one findings file report.json, a logs directory holding
\* radar.log and nested/audit.log, the pack written outside the logs
SeedS6 ==
    /\ pargs.findings_paths = <<Work \o <<nReportJson>>>>
    /\ pargs.logs_path = Work \o <<nLogs>>
    /\ pargs.output_path = Work \o <<nOutZip>>
    /\ DOMAIN fs \cap LogFilePool =
          {Work \o <<nLogs, nRadarLog>>, Work \o <<nLogs, nNested, nAuditLog>>}

ArcFindingsReport == FindingsPfx \o nReportJson
ArcLogsRadar      == LogsPfx \o nRadarLog
ArcLogsAudit      == LogsPfx \o nNested \o Slash \o nAuditLog

\* C9 as stated: in S6 the zip entries are findings/report.json,
\* logs/radar.log, logs/nested/audit.log, metadata.json in this order and
\* metadata.logs is [logs/radar.log, logs/nested/audit.log].
C9_SeedS6AsStated ==
    (ppc = "done" /\ SeedS6) =>
        /\ EntryNames(fs[output_path].zip) =
              <<ArcFindingsReport, ArcLogsRadar, ArcLogsAudit, nMetadataJson>>
        /\ metadata.logs = <<ArcLogsRadar, ArcLogsAudit>>

\* C9 amended: in S6 the zip entries are findings/report.json,
\* logs/nested/audit.log, logs/radar.log, metadata.json in this order (the
\* log files in sorted path order) and metadata.logs is
\* [logs/nested/audit.log, logs/radar.log].
C9_SeedS6Sorted ==
    (ppc = "done" /\ SeedS6) =>
        /\ EntryNames(fs[output_path].zip) =
              <<ArcFindingsReport, ArcLogsAudit, ArcLogsRadar, nMetadataJson>>
        /\ metadata.logs = <<ArcLogsAudit, ArcLogsRadar>>
        /\ metadata.findings = <<ArcFindingsReport>>

C9_Witness ==
    /\ ppc = "done"
    /\ SeedS6
    /\ Len(fs[output_path].zip) = 4
    /\ fs[output_path].closed

\* metadata.json without the clock reading
MaskCreatedAt(entry) ==
    IF entry.name = nMetadataJson
    THEN [entry EXCEPT !.content = [json |-> [@.json EXCEPT !.created_at = 0]]]
    ELSE entry

\* C10: two builds with the same arguments, one after the other on
\* otherwise unchanged files, leave zips whose entries agree in names, order
\* and content, but for created_at inside metadata.json.
C10_RebuildIdentical ==
    (ppc = "done" /\ buildNo = 2) =>
        LET first  == firstZip.zip
            second == fs[output_path].zip
        IN  /\ Len(first) = Len(second)
            /\ \A i \in DOMAIN first : MaskCreatedAt(first[i]) = MaskCreatedAt(second[i])

C10_Witness ==
    /\ ppc = "done"
    /\ buildNo = 2
    /\ Len(metadata.logs) >= 3
    /\ Len(metadata.findings) >= 2
    /\ firstZip.zip # fs[output_path].zip

----------------------------------------------------------------------------
(* Claims about two run_scan calls in a row (SpecRun) *)

\* C11: two run_scan calls with the same configuration on an unchanged
\* project return reports equal in findings, summary, snapshot, trace_ids
\* and metadata (generated_at, the one field left, is not in the model).
C11_RescanIdentical ==
    (pc = "done" /\ runNo = 2) =>
        /\ report.findings = firstReport.findings
        /\ report.summary = firstReport.summary
        /\ report.parsed_project = firstReport.parsed_project
        /\ report.trace_ids = firstReport.trace_ids
        /\ report.metadata = firstReport.metadata

\* the same for a project with a manifest, the report written elsewhere
C11_RescanIdenticalWithManifest ==
    (pc = "done" /\ runNo = 2 /\ disk.manifest.kind = "json"
        /\ config.output_path # ManifestPath) => report = firstReport

----------------------------------------------------------------------------
(* Claims about RadarReport.to_dict / from_dict (SpecRoundTrip) *)

\* R with every finding severity in canonical form
Canonicalised(r) ==
    [r EXCEPT !.findings =
        [i \in DOMAIN r.findings |->
            [r.findings[i] EXCEPT !.severity = normalize_severity(@)]]]

\* C12: for every report R, from_dict(R.to_dict()) equals R field by field,
\* but for the finding severities, which come back in canonical form.
C12_RoundTrip ==
    (fpc = "returned" /\ fin.op = "round_trip") =>
        fout.report = Canonicalised(fin.report)

C12_Witness ==
    /\ fpc = "returned"
    /\ fin.op = "round_trip"
    /\ fin.report.parsed_project # NoProject
    /\ Len(fin.report.scenario_results) = 2
    /\ Len(fin.report.findings) = 3
    /\ \E i \in DOMAIN fin.report.findings :
          /\ fin.report.findings[i].severity \notin CanonicalSeverities
          /\ fout.report.findings[i].severity = SevHigh
    /\ fout.report # fin.report

----------------------------------------------------------------------------
(* Claims about severities in the reports of run_scan / run_test (SpecRun) *)

\* the severities of the findings of a serialised report
SeveritiesIn(payload) ==
    LET fs_ == Get(payload, "findings", <<>>) IN {fs_[i].severity : i \in DOMAIN fs_}

----------------------------------------------------------------------------
(* Claims about the scenario runner in run_test (SpecRun) *)

\* the scenarios run_test asks for: the configured ones, or the four
\* default ones when the list is empty
RequestedScenarios ==
    IF config.scenarios = <<>>
    THEN <<"prompt-injection", "pii-leakage", "harmful-content", "tool-abuse">>
    ELSE config.scenarios

\* the expectation the project states for a scenario, lower-cased; <<>>
\* when it states none
ExpectationFor(scenario) ==
    LET stated == Get(project.metadata, "test_expectations", EmptyDict)
    IN  IF scenario \in DOMAIN stated THEN Lower(stated[scenario]) ELSE <<>>

StatusFor(scenario) ==
    IF ExpectationFor(scenario) \in {<<"f","a","i","l">>, <<"f","a","i","l","e","d">>}
    THEN "failed"
    ELSE IF ExpectationFor(scenario) \in {<<"w","a","r","n">>, <<"w","a","r","n","i","n","g">>}
    THEN "warning"
    ELSE "passed"

\* C14: one ScenarioResult per requested scenario, in request order, with
\* status failed / warning / passed by the expectation; one finding
\* SCENARIO-FAIL::<name> (high) per failed and SCENARIO-WARN::<name>
\* (medium) per warning result and none per passed one; in the report of
\* run_test metadata.scenario_failures names exactly the failed results;
\* an empty scenarios list means the four default scenarios.
C14_ScenarioResults ==
    (config.test /\ pc \in {"build", "open", "dump", "store", "put", "return", "done"}) =>
        LET names   == RequestedScenarios
            results == scenario_out.results
            flagged == SelectSeq(names, LAMBDA n : StatusFor(n) # "passed")
            failed  == SelectSeq(names, LAMBDA n : StatusFor(n) = "failed")
        IN  /\ Len(results) = Len(names)
            /\ \A i \in DOMAIN names :
                  /\ results[i].name = names[i]
                  /\ results[i].status = StatusFor(names[i])
            /\ Len(scenario_out.findings) = Len(flagged)
            /\ \A k \in DOMAIN flagged :
                  LET f == scenario_out.findings[k] IN
                  IF StatusFor(flagged[k]) = "failed"
                  THEN f.identifier = "SCENARIO-FAIL::" \o flagged[k] /\ f.severity = SevHigh
                  ELSE f.identifier = "SCENARIO-WARN::" \o flagged[k] /\ f.severity = SevMedium
            /\ report # NoReport =>
                  /\ report.metadata["scenario_failures"] = failed
                  /\ report.metadata["scenarios"] = names
                  /\ report.scenario_results = results

C14_Witness ==
    /\ pc = "done"
    /\ config.test
    /\ config.scenarios = <<"pii-leakage", "prompt-injection">>
    /\ "scenario_failures" \in DOMAIN config.metadata
    /\ report.metadata["scenario_failures"] = <<"prompt-injection">>
    /\ scenario_out.results[1].status = "warning"
    /\ Len(scenario_out.findings) = 2

\* the fall-back to the default scenarios has happened
C14_WitnessDefaults ==
    /\ pc = "done"
    /\ config.test
    /\ config.scenarios = <<>>
    /\ Len(scenario_out.results) = 4

----------------------------------------------------------------------------
(* Claims about the built-in detectors (SpecDetect) *)

\* identifier and severity of each finding, in order
Emitted(fs_) == [i \in DOMAIN fs_ |-> <<fs_[i].identifier, fs_[i].severity>>]

Http == <<"h","t","t","p">>

\* what the tool-inventory detector is to emit for one tool, a missing
\* version being one of the values in unversioned
ToolExpected(tool, unversioned) ==
    (IF tool.version \in unversioned
     THEN << <<"TOOL-NOVERSION::" \o tool.name, SevMedium>> >> ELSE <<>>)
    \o (IF tool.source # NoneChars /\ StartsWith(tool.source, Http)
        THEN << <<"TOOL-EXTERNAL::" \o tool.name, SevLow>> >> ELSE <<>>)

\* C15 as stated: TOOL-NOVERSION::<name> (medium) is emitted for a tool if
\* and only if its version is null, TOOL-EXTERNAL::<name> (low) if and only
\* if its source starts with http.
C15_ToolFindingsIffNull ==
    (fpc = "returned" /\ fin.op = "tool-inventory") =>
        /\ fout.exc = None
        /\ Emitted(fout.findings) =
              Flatten([i \in DOMAIN fin.project.tools |->
                          ToolExpected(fin.project.tools[i], {None})])

\* C15 amended: TOOL-NOVERSION::<name> (medium) is emitted for a tool if
\* and only if its version is null or the empty string, TOOL-EXTERNAL::<name>
\* (low) if and only if its source starts with http; a tool with a
\* non-empty version and a non-http source yields no finding.
C15_ToolFindingsIffNoVersion ==
    (fpc = "returned" /\ fin.op = "tool-inventory") =>
        /\ fout.exc = None
        /\ Emitted(fout.findings) =
              Flatten([i \in DOMAIN fin.project.tools |->
                          ToolExpected(fin.project.tools[i], {None, ""})])

C15_Witness ==
    /\ fpc = "returned"
    /\ fin.op = "tool-inventory"
    /\ Len(fin.project.tools) = 2
    /\ fin.project.tools[1].version = ""
    /\ fin.project.tools[1].source = SrcHttps
    /\ fin.project.tools[2].version = "1.2.3"
    /\ fin.project.tools[2].source = SrcInternal
    /\ Len(fout.findings) = 2

\* what the MCP detector is to emit for one server
ServerExpected(server) ==
    (IF server.capabilities = <<>>
     THEN << <<"MCP-NOCAP::" \o server.name, SevMedium>> >> ELSE <<>>)
    \o (IF server.auth_mode = None \/ server.auth_mode = "anonymous"
           \/ server.auth_mode = "none"
        THEN << <<"MCP-NOAUTH::" \o server.name, SevHigh>> >> ELSE <<>>)

\* C16: MCP-NOAUTH::<name> (high) is emitted for a server if and only if
\* auth_mode is null, "anonymous" or "none", letter case counting, and
\* MCP-NOCAP::<name> (medium) if and only if its capabilities are empty.
C16_ServerFindings ==
    (fpc = "returned" /\ fin.op = "mcp-server") =>
        /\ fout.exc = None
        /\ Emitted(fout.findings) =
              Flatten([i \in DOMAIN fin.project.mcp_servers |->
                          ServerExpected(fin.project.mcp_servers[i])])

C16_Witness ==
    /\ fpc = "returned"
    /\ fin.op = "mcp-server"
    /\ Len(fin.project.mcp_servers) = 2
    /\ fin.project.mcp_servers[1].auth_mode = "ANONYMOUS"
    /\ fin.project.mcp_servers[1].capabilities # <<>>
    /\ fin.project.mcp_servers[2].auth_mode = "none"
    /\ Emitted(fout.findings) =
          << <<"MCP-NOCAP::" \o fin.project.mcp_servers[2].name, SevMedium>>,
             <<"MCP-NOAUTH::" \o fin.project.mcp_servers[2].name, SevHigh>> >>

\* the vulnerability entries of a project, each with its dependency
EntriesOf(proj) ==
    Flatten([i \in DOMAIN proj.dependencies |->
        [j \in DOMAIN proj.dependencies[i].vulnerabilities |->
            [dep |-> proj.dependencies[i].name,
             vuln |-> proj.dependencies[i].vulnerabilities[j]]]])

\* the canonical severity of a manifest entry: critical, high, medium, low
\* whatever the letter case, moderate as medium, unknown otherwise
EntrySeverity(vuln) ==
    LET given == IF "severity" \in DOMAIN vuln /\ vuln.severity # NoneChars
                 THEN Lower(vuln.severity) ELSE SevUnknown
    IN  IF given \in {SevCritical, SevHigh, SevMedium, SevLow} THEN given
        ELSE IF given = SevModerate THEN SevMedium
        ELSE SevUnknown

\* one entry answered by the finding f as the claim has it
EntryAnswered(entry, f) ==
    /\ ("id" \in DOMAIN entry.vuln) =>
          f.identifier = "DEP-VULN::" \o entry.dep \o "::" \o entry.vuln.id
    /\ ("id" \notin DOMAIN entry.vuln /\ "cve" \in DOMAIN entry.vuln) =>
          f.identifier = "DEP-VULN::" \o entry.dep \o "::" \o entry.vuln.cve
    /\ f.severity = EntrySeverity(entry.vuln)
    /\ ("fix_version" \in DOMAIN entry.vuln) => f.remediation = entry.vuln.fix_version

\* C17: the dependency-vulnerability detector emits exactly one finding
\* DEP-VULN::<depname>::<id-or-cve> per vulnerability entry, entries that
\* share an id included, with the entry's severity canonicalised (a missing
\* or null severity being unknown) and the entry's fix_version as remediation.
C17_OneFindingPerEntry ==
    (fpc = "returned" /\ fin.op = "dependency-vulnerability") =>
        LET entries == EntriesOf(fin.project) IN
        /\ fout.exc = None
        /\ Len(fout.findings) = Len(entries)
        /\ \A i \in DOMAIN entries : EntryAnswered(entries[i], fout.findings[i])

\* the same for projects none of whose entries has a null severity
C17_OneFindingPerEntryBarNull ==
    (fpc = "returned" /\ fin.op = "dependency-vulnerability"
        /\ \A i \in DOMAIN EntriesOf(fin.project) :
               Get(EntriesOf(fin.project)[i].vuln, "severity", SevUnknown) # NoneChars)
    => C17_OneFindingPerEntry

----------------------------------------------------------------------------
(* Claims about the parser (SpecParse) *)

\* C18: ProjectParser.parse either returns a ParsedProject or raises
\* ParserError and no other exception; it raises ParserError when the root
\* does not exist or is not a directory, when the manifest is not JSON or is
\* JSON whose top level is not an object, and when the manifest path
\* cannot be read.
C18_ParsedOrParserError ==
    (fpc = "returned" /\ fin.op = "parse") =>
        /\ fout.exc \in {None, "ParserError"}
        /\ (fout.exc = None) = (fout.project # NoProject)
        /\ (~fin.root.exists \/ ~fin.root.is_dir) => fout.exc = "ParserError"
        /\ (fin.root.manifest \in {Malformed, NonObject, Unreadable}) =>
              fout.exc = "ParserError"

\* the same for roots whose manifest, when there is one, can be read and
\* is either no JSON at all or a JSON object
C18_ParsedOrParserErrorObjects ==
    (fpc = "returned" /\ fin.op = "parse"
        /\ fin.root.manifest \notin {NonObject, Unreadable})
    => C18_ParsedOrParserError

----------------------------------------------------------------------------
(* Claims about the OWASP mapper (SpecMapper) *)

\* every constraint the rule provides holds of the finding
RuleHolds(rule, finding) ==
    LET given(v)  == v # NoneChars /\ v # <<>>
        text      == JoinSpace(SelectSeq(<<finding.summary, JoinSpace(finding.aliases)>>,
                                         given))
        names     == {finding.vulnerability_id} \cup Range(finding.aliases)
        rank(sev) == IF given(sev) THEN SEVERITY_ORDER(Lower(sev)) ELSE 0
    IN  /\ given(rule.package) =>
              Lower(Strip(finding.package)) = Lower(Strip(rule.package))
        /\ given(rule.ecosystem) =>
              /\ finding.ecosystem # NoneChars
              /\ Lower(Strip(finding.ecosystem)) = Lower(Strip(rule.ecosystem))
        /\ (rule.id_prefixes # <<>>) =>
              \E prefix \in Range(rule.id_prefixes), name \in names :
                  StartsWith(Lower(name), Lower(prefix))
        /\ (rule.keywords # <<>>) =>
              \E keyword \in Range(rule.keywords) : Contains(Lower(text), Lower(keyword))
        /\ given(rule.severity_at_least) =>
              rank(finding.severity) >= rank(rule.severity_at_least)

\* the codes the rules holding of the finding contribute, or the default
CodesFor(rules, finding, field, default) ==
    LET found == UNION {Range(rules[i][field]) : i \in {j \in DOMAIN rules :
                                                         RuleHolds(rules[j], finding)}}
    IN  IF found = {} THEN {default} ELSE found

\* C19: OWASPMapper.apply gives the finding, as LLM categories, the codes of
\* all rules every provided constraint of which holds, in ascending order
\* and without repeats, or LLM05 when those rules give none; as Agentic
\* categories the same with AA06; neither list is empty.
C19_CategoriesFromMatchingRules ==
    (fpc = "returned" /\ fin.op = "apply") =>
        LET llm     == SortedCodes(CodesFor(fin.rules, fin.finding, "llm_codes", "LLM05"))
            agentic == SortedCodes(CodesFor(fin.rules, fin.finding, "agentic_codes", "AA06"))
        IN  /\ fout.finding.owasp_llm_categories =
                  [i \in DOMAIN llm |-> _format_category(llm[i], LLM_CATEGORY_TITLES)]
            /\ fout.finding.owasp_agentic_categories =
                  [i \in DOMAIN agentic |->
                      _format_category(agentic[i], AGENTIC_CATEGORY_TITLES)]
            /\ fout.finding.owasp_llm_categories # <<>>
            /\ fout.finding.owasp_agentic_categories # <<>>

C19_Witness ==
    /\ fpc = "returned"
    /\ fin.op = "apply"
    /\ fin.rules = <<RuleKeywords, RuleEcosystem, RulePackage>>
    /\ fin.finding.package = <<" ","R","e","q","u","e","s","t","s"," ">>
    /\ fout.finding.owasp_llm_categories =
          << "LLM02 - Insecure Output Handling", "LLM03 - Training Data Poisoning",
             "LLM04 - Model Denial of Service", "LLM10 - Model Theft" >>
    /\ fout.finding.owasp_agentic_categories =
          << "AA09 - Safety & Policy Violations", "AA10 - Resilience & Availability" >>

\* no rule of the default list matches: the defaults are applied
C19_WitnessDefaults ==
    /\ fpc = "returned"
    /\ fin.op = "apply"
    /\ fin.rules = DEFAULT_RULES
    /\ fin.finding.summary # NoneChars
    /\ fout.finding.owasp_llm_categories = <<"LLM05 - Supply Chain Vulnerabilities">>
    /\ fout.finding.owasp_agentic_categories = <<"AA06 - Supply Chain & Dependency Risk">>

----------------------------------------------------------------------------
(* Claims about VulnerabilityMapper.merge (SpecMapper) *)

\* (lowercased package, uppercased vulnerability id)
KeyOf(f) == <<Lower(f.package), Upper(f.vulnerability_id)>>

\* the positions at which a key occurs for the first time
FirstAt(all) ==
    SelectSeq([i \in DOMAIN all |-> i],
              LAMBDA i : \A j \in 1..(i - 1) : KeyOf(all[j]) # KeyOf(all[i]))

\* the findings that share the key of all[i], in order
Sharing(all, i) == SelectSeq(all, LAMBDA f : KeyOf(f) = KeyOf(all[i]))

\* the first value that counts as given, the last value when none does
FirstGiven(values, given(_)) ==
    IF \E i \in DOMAIN values : given(values[i])
    THEN values[CHOOSE i \in DOMAIN values :
                    given(values[i]) /\ \A j \in 1..(i - 1) : ~given(values[j])]
    ELSE values[Len(values)]

\* the rank of a severity value, none and unknown words ranking 0
RankOf(severity) ==
    IF severity = NoneChars THEN 0 ELSE SEVERITY_ORDER(Lower(severity))

\* the first of the highest-ranked severities; when every rank is 0 the
\* first non-empty value, or none
HighestSeverity(values) ==
    LET top == CHOOSE r \in {RankOf(values[i]) : i \in DOMAIN values} :
                   \A i \in DOMAIN values : RankOf(values[i]) <= r
    IN  IF top > 0
        THEN values[CHOOSE i \in DOMAIN values :
                        RankOf(values[i]) = top /\ \A j \in 1..(i - 1) : RankOf(values[j]) < top]
        ELSE IF \E i \in DOMAIN values : TruthyText(values[i])
        THEN FirstGiven(values, TruthyText)
        ELSE NoneChars

\* the same severity word, letter case apart
SameWord(a, b) ==
    IF a = NoneChars \/ b = NoneChars THEN a = b ELSE Lower(a) = Lower(b)

\* the texts of a tuple are those of the set, each once
IsSetOf(tuple, S) == Range(tuple) = S /\ Len(tuple) = Cardinality(S)

\* out is what the claim has merge return for the inputs of one key, a
\* summary or location counting as present when given holds of it
MergedRecord(out, inputs, rules, given(_)) ==
    IF Len(inputs) = 1 THEN out = inputs[1]
    ELSE /\ IsSetOf(out.aliases, UNION {Range(inputs[i].aliases) : i \in DOMAIN inputs})
         /\ IsSetOf(out.fix_versions,
                    UNION {Range(inputs[i].fix_versions) : i \in DOMAIN inputs})
         /\ IsSetOf(out.references,
                    UNION {Range(inputs[i].references) : i \in DOMAIN inputs})
         /\ SameWord(out.severity,
                     HighestSeverity([i \in DOMAIN inputs |-> inputs[i].severity]))
         /\ out.summary = FirstGiven([i \in DOMAIN inputs |-> inputs[i].summary], given)
         /\ out.location = FirstGiven([i \in DOMAIN inputs |-> inputs[i].location], given)
         /\ out = OWASPMapper_apply(rules, out)

\* merge returns one finding per key, in the order of first occurrence,
\* each being the merged record of the inputs of its key
MergedPerKey(given(_)) ==
    (fpc = "returned" /\ fin.op = "merge") =>
        LET all    == Flatten(fin.groups)
            firsts == FirstAt(all)
        IN  /\ Len(fout.findings) = Len(firsts)
            /\ \A n \in DOMAIN firsts :
                  /\ KeyOf(fout.findings[n]) = KeyOf(all[firsts[n]])
                  /\ MergedRecord(fout.findings[n], Sharing(all, firsts[n]), fin.rules, given)

NotNone(v) == v # NoneChars

\* C20 as stated: merge returns exactly one finding per distinct key
\* (lowercased package, uppercased id) in first-occurrence order; for a key
\* with several inputs the aliases, fix_versions and references are the set
\* unions, the severity is the highest-ranked one (ties and rank 0: the
\* first non-empty value), the summary and the location are the first
\* non-null ones, and the categories are those of the rules applied to the
\* merged record.
C20_MergeFirstNonNull == MergedPerKey(NotNone)

\* C20 amended: as above, but the summary and the location are the first
\* non-empty ones (an empty string counts as missing; when every input's
\* is null or empty, the last input's), and the severity of a merged
\* record is in upper case.
C20_MergeFirstNonEmpty ==
    /\ MergedPerKey(TruthyText)
    /\ (fpc = "returned" /\ fin.op = "merge") =>
          \A n \in DOMAIN fout.findings :
              LET out == fout.findings[n] IN
              (Len(Sharing(Flatten(fin.groups), FirstAt(Flatten(fin.groups))[n])) > 1
                  /\ out.severity # NoneChars)
              => out.severity = Upper(out.severity)

C20_Witness ==
    /\ fpc = "returned"
    /\ fin.op = "merge"
    /\ Len(fin.groups[1]) = 1
    /\ Len(fin.groups[2]) = 2
    /\ Len(fout.findings) = 2
    /\ fin.groups[1][1].summary = <<>>
    /\ fin.groups[1][1].severity = SevModerate
    /\ fout.findings[1].summary = <<"s","s","r","f">>
    /\ fout.findings[1].severity = <<"M","O","D","E","R","A","T","E">>
    /\ Len(fout.findings[1].aliases) = 2
    /\ fout.findings[1].owasp_llm_categories = <<"LLM07 - Insecure Plugin Design">>
    /\ fout.findings[2] = fin.groups[2][1]

----------------------------------------------------------------------------
(* Claims about VulnerabilityMapper.from_osv (SpecOsv) *)

\* the (package, version, vulnerability) triples of a payload, in order
Triples(payload) ==
    LET results == Get(payload, "results", <<>>) IN
    Flatten([r \in DOMAIN results |->
        LET packages == Get(results[r], "packages", <<>>) IN
        Flatten([p \in DOMAIN packages |->
            LET vulnerabilities == Get(packages[p], "vulnerabilities", <<>>)
                versions == IF Get(packages[p], "versions", <<>>) = <<>>
                            THEN << <<"u","n","k","n","o","w","n">> >>
                            ELSE packages[p].versions
            IN  Flatten([v \in DOMAIN vulnerabilities |->
                    [i \in DOMAIN versions |->
                        [package |-> packages[p], version |-> versions[i],
                         vuln |-> vulnerabilities[v]]]])])])

HasId(vuln) == "id" \in DOMAIN vuln /\ vuln.id # NoneChars /\ vuln.id # <<>>

\* from_osv emits one finding per triple, each carrying the id of its
\* vulnerability when that has one, and merge keeps apart the findings of
\* two vulnerabilities with different ids
OneFindingPerTriple(triples) ==
    /\ Len(fout.findings) = Len(triples)
    /\ \A i \in DOMAIN triples :
          /\ fout.findings[i].version = triples[i].version
          /\ HasId(triples[i].vuln) => fout.findings[i].vulnerability_id = triples[i].vuln.id
    /\ \A i, j \in DOMAIN triples :
          (HasId(triples[i].vuln) /\ HasId(triples[j].vuln)
              /\ Upper(triples[i].vuln.id) # Upper(triples[j].vuln.id))
          => /\ fout.findings[i].vulnerability_id # fout.findings[j].vulnerability_id
             /\ \E m, n \in DOMAIN fout.merged :
                   /\ m # n
                   /\ fout.merged[m].vulnerability_id = triples[i].vuln.id
                   /\ fout.merged[n].vulnerability_id = triples[j].vuln.id

\* C21: from_osv emits exactly one finding per (package, version,
\* vulnerability) triple; its vulnerability_id is the vulnerability's own id
\* whenever it has one, with or without aliases; two vulnerabilities of one
\* package with different ids get different vulnerability_ids and merge does
\* not collapse them.
C21_OneFindingPerTripleOwnId ==
    (fpc = "returned" /\ fin.op = "from_osv") => OneFindingPerTriple(Triples(fin.payload))

\* the same for payloads every vulnerability of which has an alias
C21_OneFindingPerTripleAliased ==
    (fpc = "returned" /\ fin.op = "from_osv"
        /\ \A i \in DOMAIN Triples(fin.payload) :
              Get(Triples(fin.payload)[i].vuln, "aliases", <<>>) # <<>>)
    => OneFindingPerTriple(Triples(fin.payload))

----------------------------------------------------------------------------
(* Claims about the severity alias (SpecBuild) *)

\* a severity that reads moderate, letter case and outer blanks apart
IsModerate(severity) ==
    severity # NoneChars /\ Lower(Strip(severity)) = SevModerate

\* a severity that reads medium
IsMedium(severity) ==
    severity # NoneChars /\ Lower(Strip(severity)) = SevMedium

\* C22: a finding whose severity is moderate, in any letter case, is
\* counted under medium in summary.findings and is serialised with severity
\* medium, not unknown.
C22_ModerateCountsAsMedium ==
    (bpc = "built") =>
        /\ bReport.summary.findings[SevMedium] =
              Cardinality({i \in DOMAIN bFindings : IsModerate(bFindings[i].severity)
                                                     \/ IsMedium(bFindings[i].severity)})
        /\ \A i \in DOMAIN bFindings :
              IsModerate(bFindings[i].severity) =>
                  ReportToDict(bReport).findings[i].severity = SevMedium

\* the same for lists of findings none of which reads moderate
C22_MediumCountedWithoutModerate ==
    (bpc = "built" /\ \A i \in DOMAIN bFindings : ~IsModerate(bFindings[i].severity))
    => C22_ModerateCountsAsMedium

----------------------------------------------------------------------------
(* Claims about metadata enrichment (SpecRun) *)

\* the keys run_test sets itself, whatever the caller supplied
RunOwnedKeys == IF config.test THEN {"scenarios", "scenario_failures"} ELSE {}

\* every key of config.metadata outside the given ones is in
\* report.metadata with the caller's value, and the defaults are there
CallerKeysKept(except) ==
    (report # NoReport) =>
        /\ \A k \in DOMAIN config.metadata \ except :
              k \in DOMAIN report.metadata /\ report.metadata[k] = config.metadata[k]
        /\ {"mode", "detectors", "trace_id_count"} \subseteq DOMAIN report.metadata
        /\ ("mode" \notin DOMAIN config.metadata) =>
              report.metadata["mode"] = (IF config.test THEN "test" ELSE "scan")
        /\ ("trace_id_count" \notin DOMAIN config.metadata) =>
              report.metadata["trace_id_count"] = Len(config.trace_ids)

\* C23 as stated: for run_scan and run_test every key of config.metadata
\* appears in report.metadata with the caller's value, the defaults mode,
\* detectors and trace_id_count being added only for keys the caller did
\* not supply.
C23_CallerMetadataKept == CallerKeysKept({})

\* C23 amended: every key of config.metadata appears in report.metadata
\* with the caller's value, except that run_test always sets scenarios and
\* scenario_failures itself; mode, detectors and trace_id_count are added
\* only for keys the caller did not supply; config.metadata is not
\* modified by the run.
C23_CallerMetadataKeptButScenarios ==
    /\ [](CallerKeysKept(RunOwnedKeys))
    /\ [][config' = config]_vars

C23_Witness ==
    /\ pc = "done"
    /\ config.test
    /\ {"mode", "release", "scenario_failures"} \subseteq DOMAIN config.metadata
    /\ config.metadata["mode"] = "nightly"
    /\ report.metadata["mode"] = "nightly"
    /\ report.metadata["trace_id_count"] = Len(config.trace_ids)
    /\ report.metadata["release"] = "2025.09"
    /\ config.metadata["scenario_failures"] = <<"stale">>
    /\ report.metadata["scenario_failures"] # <<"stale">>
    /\ "detectors" \in DOMAIN report.metadata

----------------------------------------------------------------------------
(* Claims about the object store (SpecStore) *)

\* one caller alone has used the store
Solo == sproc[2].pc = "idle" /\ \A i \in DOMAIN shist : shist[i].caller = 1

\* every caller is between two calls
Quiescent == \A p \in Callers : sproc[p].pc = "idle"

\* a put repeated with the same arguments by a caller that has the store to
\* itself leaves the store as the first call left it, for the puts in scope
RepeatLeavesStore(scope(_)) ==
    Solo =>
        \A i \in DOMAIN shist :
            (i < Len(shist) /\ shist[i + 1].args = shist[i].args /\ scope(shist[i].args))
            => shist[i + 1].after = shist[i].after

AnyPut(args) == TRUE

NamedPut(args) == args.op = "put_file" \/ args.destination_name \notin {None, ""}

\* C24 as stated: repeating put_file or put_json with the same arguments
\* leaves the store, its set of files and their contents, exactly as it was
\* after the first call.
C24_RepeatedPutIdempotent == RepeatLeavesStore(AnyPut)

\* C24 amended: repeating put_file, or put_json with a destination name,
\* with the same arguments leaves the store exactly as it was after the
\* first call; put_json without a destination name adds one new file
\* <uuid>.json on every call and leaves the other files as they were.
C24_RepeatedNamedPutIdempotent ==
    /\ RepeatLeavesStore(NamedPut)
    /\ Solo =>
          \A i \in DOMAIN shist :
              (i < Len(shist) /\ shist[i + 1].args = shist[i].args
                  /\ ~NamedPut(shist[i].args))
              => /\ shist[i + 1].name \notin DOMAIN shist[i].after
                 /\ DOMAIN shist[i + 1].after = DOMAIN shist[i].after \cup {shist[i + 1].name}
                 /\ \A n \in DOMAIN shist[i].after : shist[i + 1].after[n] = shist[i].after[n]

C24_Witness ==
    /\ Solo
    /\ Quiescent
    /\ Len(shist) = 2
    /\ shist[1].args = shist[2].args
    /\ shist[1].args.op = "put_json"
    /\ shist[1].args.destination_name = "x.json"
    /\ DOMAIN sfiles = {"x.json"}
    /\ sfiles["x.json"].state = "complete"
    /\ shist[2].after = shist[1].after

\* put_json without a name, twice: two files
C24_WitnessUuid ==
    /\ Solo
    /\ Len(shist) = 2
    /\ shist[1].args = shist[2].args
    /\ shist[1].args.op = "put_json"
    /\ Cardinality(DOMAIN sfiles) = 2

\* C25: a reader of a destination sees no file, the complete previous
\* content or the complete new content, never a partially written file,
\* while put_file or put_json is writing it, alone or at a time with
\* another put to the same name.
C25_NoTornRead ==
    (sread # NoRead) => sread.file.state # "partial"

\* C28: after any sequence of puts on one store, every path an earlier put
\* returned still holds the content that put stored.
C28_EarlierArtifactsKept ==
    Quiescent =>
        \A i \in DOMAIN shist :
            (shist[i].raised = None) =>
                /\ shist[i].name \in DOMAIN sfiles
                /\ sfiles[shist[i].name] = FileComplete(PutContent(shist[i].args))

\* the same when the puts that returned wrote to pairwise different names,
\* one after the other
C28_KeptUnderDistinctNames ==
    (Solo /\ \A i, j \in DOMAIN shist :
                (i # j /\ shist[i].raised = None /\ shist[j].raised = None)
                => shist[i].name # shist[j].name)
    => C28_EarlierArtifactsKept

----------------------------------------------------------------------------
(* Claims about the parsed project in a run (SpecRun) *)

\* what the detectors before position n return for proj, in order
DetectorOutputs(detectors, n, proj) ==
    Flatten([i \in 1..(n - 1) |-> Detector_run(detectors[i], proj).findings])

----------------------------------------------------------------------------
(* Claims about the MCP configuration walk (SpecWalk) *)

\* no two entries made of one dict object
EntriesOncePerNode ==
    \A i, j \in DOMAIN fout.findings :
        i # j => fout.findings[i].node # fout.findings[j].node

\* C27: the walk over a loaded configuration ends by returning, also when
\* the configuration has cycles, and a dict met again yields no further
\* entry.
C27_WalkEndsOnCycles ==
    fin.op = "walk" =>
        /\ fpc # "raised"
        /\ fpc \in {"walked", "returned"} => EntriesOncePerNode

\* the walk of a configuration loaded from .json, a tree of moderate depth,
\* returns with one entry per matching dict
C27_WalkEndsOnJson ==
    (fin.op = "walk" /\ fin.suffix = ".json") =>
        /\ fpc # "raised"
        /\ fpc \in {"walked", "returned"} => EntriesOncePerNode

----------------------------------------------------------------------------
(* Claims about the entries of an evidence pack (SpecPack) *)

\* the archive has been written and closed by a build that returned
PackBuilt == ppc \in {"store", "return", "done"}

\* C29: an evidence pack has no log entry that is the pack itself or an
\* earlier pack, also when logs_path holds output_path.
C29_PackNotInItsLogs ==
    PackBuilt =>
        /\ \A i \in DOMAIN zipEntries : "zip" \notin DOMAIN zipEntries[i].content
        /\ (pargs.logs_path # NoPath /\ IsUnder(output_path, pargs.logs_path))
              => LogArcname(output_path, pargs.logs_path) \notin Range(metadata.logs)

\* the same when output_path lies outside logs_path
C29_PackNotInLogsElsewhere ==
    (PackBuilt /\ (pargs.logs_path = NoPath \/ ~IsUnder(output_path, pargs.logs_path)))
    => \A i \in DOMAIN zipEntries : "zip" \notin DOMAIN zipEntries[i].content

\* the entries under findings/, in archive order
FindingsEntryNames ==
    SelectSeq([i \in DOMAIN zipEntries |-> zipEntries[i].name],
              LAMBDA name : StartsWith(name, FindingsPfx))

PairwiseDifferent(seq) == \A i, j \in DOMAIN seq : i # j => seq[i] # seq[j]

\* C30: a pack built from n different findings paths has n entries under
\* findings/ with pairwise different names, also when two of the paths share
\* a basename.
C30_FindingsEntriesDistinct ==
    (PackBuilt /\ PairwiseDifferent(pargs.findings_paths)) =>
        /\ Len(FindingsEntryNames) = Len(pargs.findings_paths)
        /\ PairwiseDifferent(FindingsEntryNames)
        /\ PairwiseDifferent(metadata.findings)

\* n entries under findings/, with different names when the basenames differ
C30_FindingsEntriesPerPath ==
    PackBuilt =>
        /\ Len(FindingsEntryNames) = Len(pargs.findings_paths)
        /\ PairwiseDifferent([i \in DOMAIN pargs.findings_paths |->
                                 PathName(pargs.findings_paths[i])])
              => PairwiseDifferent(FindingsEntryNames)

====
